---- MODULE Spec2Model ----
(***************************************************************************)
(* State-machine model of the WreckWatch search page (SearchPage in        *)
(* src/src/app/search/page.tsx, with the insights effects of the later     *)
(* revision in src/unnamed/part_003).                                      *)
(*                                                                         *)
(* One action is one browser event: a user event handler, a timer firing   *)
(* or a network response.  React batches the state updates of one event,   *)
(* renders once and then runs the effects whose dependencies changed, so   *)
(* every action ends with Render, which runs those effects.                *)
(*                                                                         *)
(* Object identity matters to React (Object.is on dependencies and on      *)
(* setState), so the filters and sort objects carry an `id`: a new object  *)
(* literal gets a fresh id, a stored object keeps its id.                  *)
(*                                                                         *)
(***************************************************************************)
EXTENDS Integers, Sequences, FiniteSets, TLC

VARIABLES
  filters,      \* useState<Filters>
  debounced,    \* useDebounce(filters, 400): the delayed copy
  timer,        \* ms left on the pending debounce timeout, -1 when none
  quiet,        \* ms since filters last changed identity (capped)
  sort,         \* useState<Sort>
  page,         \* useState(1)
  pageSize,     \* useState(25)
  history,      \* useState<Snapshot[]>
  rows,         \* useState<any[]>: the rows on display
  total,        \* useState(0)
  loading,      \* useState(false)
  error,        \* useState('')
  vinCounts,    \* useState<Record<string, number>>
  inflight,     \* fetchData invocations that have not finished, oldest first
  rowsOf,       \* the query whose response filled rows/total ({} after a failure or at start)
  started,      \* number of fetchData invocations the last event started
  event,        \* the handler or callback that ran last
  opts,         \* useState<Record<string, string[]>>: the dropdown options
  optsLoading,  \* useState(false)
  wovrVariantsMap, \* useState<Record<string, string[]>>
  optReqs,      \* loadAllOptions calls whose responses have not arrived
  modelReqs,    \* distinct_model calls of the make effect in flight, oldest first
  insights,     \* useState<InsightsJson | null>
  insightsLoading, \* useState(false)
  pricePoints,  \* useState<{t, p}[]>
  insReqs,      \* ww_insights calls in flight, each with its effect's cancelled flag
  ptReqs        \* price-point fetches in flight

vars == <<filters, debounced, timer, quiet, sort, page, pageSize, history,
          rows, total, loading, error, vinCounts, inflight, rowsOf, started, event,
          opts, optsLoading, wovrVariantsMap, optReqs, modelReqs,
          insights, insightsLoading, pricePoints, insReqs, ptReqs>>

resultVars == <<rows, total, vinCounts, rowsOf>>
optVars == <<opts, optsLoading, wovrVariantsMap, optReqs, modelReqs>>
insightVars == <<insights, insightsLoading, pricePoints, insReqs, ptReqs>>

----------------------------------------------------------------------------
(* Bounds of the model *)

MaxInFlight == 2      \* fetchData invocations in flight at once
MaxSequential == 1    \* the same, where the specification lets them not overlap
MaxOptReqs == 2       \* loadAllOptions calls in flight at once
MaxModelReqs == 2     \* distinct_model calls in flight at once
MaxInsReqs == 2       \* ww_insights calls in flight at once
MaxPtReqs == 2        \* price-point fetches in flight at once
MaxHistory == 1       \* depth of the drill-down history
MaxNested == 2        \* the same, where the specification nests drill-downs
TickStep == 200       \* granularity of time

(* Program constants *)

DEBOUNCE_MS == 400
InitialPageSize == 25

PageSizes == {10, 25, 50, 100}

DISPLAY == {"year", "make", "model", "sub_model", "vin", "odometer", "wovr_status",
            "incident_type", "sale_status", "sold_price", "sold_date",
            "auction_house", "buyer_number", "state", "link"}

SORTABLE == (DISPLAY \ {"link"}) \cup {"id"}

----------------------------------------------------------------------------
(* JavaScript strings.  TLC's Len, SubSeq and \o work on strings, so the   *)
(* string operations of the source are computed character by character.    *)

Min(a, b) == IF a < b THEN a ELSE b
Max(a, b) == IF a > b THEN a ELSE b

Char(s, i) == SubSeq(s, i, i)

Digits == {"0", "1", "2", "3", "4", "5", "6", "7", "8", "9"}

\* The code unit of a character, for the characters the inputs use
CharCode(c) ==
  CASE c = " " -> 32 [] c = "-" -> 45
    [] c = "0" -> 48 [] c = "1" -> 49 [] c = "2" -> 50 [] c = "3" -> 51
    [] c = "4" -> 52 [] c = "5" -> 53 [] c = "6" -> 54 [] c = "7" -> 55
    [] c = "8" -> 56 [] c = "9" -> 57

\* Number(s) for a string of decimal digits (Number('') is 0)
RECURSIVE Number(_)
Number(s) ==
  IF Len(s) = 0 THEN 0
  ELSE 10 * Number(SubSeq(s, 1, Len(s) - 1)) + (CharCode(Char(s, Len(s))) - 48)

\* a > b on JavaScript strings: by code unit, a proper prefix is smaller
RECURSIVE StrGT(_, _)
StrGT(a, b) ==
  IF Len(a) = 0 THEN FALSE
  ELSE IF Len(b) = 0 THEN TRUE
  ELSE IF Char(a, 1) # Char(b, 1) THEN CharCode(Char(a, 1)) > CharCode(Char(b, 1))
  ELSE StrGT(SubSeq(a, 2, Len(a)), SubSeq(b, 2, Len(b)))

\* String.prototype.trim, for the blanks the inputs use
RECURSIVE Trim(_)
Trim(s) ==
  IF Len(s) = 0 THEN s
  ELSE IF Char(s, 1) = " " THEN Trim(SubSeq(s, 2, Len(s)))
  ELSE IF Char(s, Len(s)) = " " THEN Trim(SubSeq(s, 1, Len(s) - 1))
  ELSE s

\* Math.ceil(a / b) for a >= 0, b > 0
Ceil(a, b) == (a + b - 1) \div b

----------------------------------------------------------------------------
(* Filters *)

INITIAL_FILTERS ==
  [id |-> 0, vin |-> "", buyer_no |-> "", make |-> "", model |-> "",
   yearFrom |-> "", yearTo |-> "", dateFrom |-> "", dateTo |-> "",
   wovr_status |-> "", sale_status |-> "", incident_types |-> <<>>,
   priceMin |-> "", priceMax |-> "", auction_house |-> "", state |-> ""]

InitialSort == [column |-> "sold_date", direction |-> "desc", id |-> 0]

\* The value of an object, without its identity
Val(o) == [o EXCEPT !.id = 0]

SeqRange(s) == {s[i] : i \in 1..Len(s)}

\* Identities that are still referenced
FilterIds == {filters.id, debounced.id, 0} \cup {history[i].filters.id : i \in 1..Len(history)}
SortIds == {sort.id, 0} \cup {history[i].sort.id : i \in 1..Len(history)}

\* The identity of a new object: the least one not referenced
Fresh(used) == CHOOSE n \in 1..(Cardinality(used) + 1) :
                 n \notin used /\ \A m \in 1..(n - 1) : m \in used

totalPages == Max(1, Ceil(total, pageSize))

----------------------------------------------------------------------------
(* More string operations, used on the option values *)

Upper == "ABCDEFGHIJKLMNOPQRSTUVWXYZ"
Lower == "abcdefghijklmnopqrstuvwxyz"

LowerChar(c) ==
  IF \E i \in 1..26 : Char(Upper, i) = c
  THEN Char(Lower, CHOOSE i \in 1..26 : Char(Upper, i) = c)
  ELSE c

RECURSIVE toLowerCase(_)
toLowerCase(s) ==
  IF Len(s) = 0 THEN s ELSE LowerChar(Char(s, 1)) \o toLowerCase(SubSeq(s, 2, Len(s)))

startsWith(s, p) == Len(s) >= Len(p) /\ SubSeq(s, 1, Len(p)) = p

\* s.slice(n)
slice(s, n) == SubSeq(s, n + 1, Len(s))

\* s.split(','): the sequence of pieces between commas
RECURSIVE SplitFrom(_, _, _)
SplitFrom(s, i, piece) ==
  IF i > Len(s) THEN <<piece>>
  ELSE IF Char(s, i) = "," THEN <<piece>> \o SplitFrom(s, i + 1, "")
  ELSE SplitFrom(s, i + 1, piece \o Char(s, i))

split(s) == SplitFrom(s, 1, "")

IsAlnum(c) == c \in Digits \/ \E i \in 1..26 : Char(Lower, i) = c

\* replace(/[^a-z0-9]+/g, ' ') then replace(/\s+/g, ' '): each run of other
\* characters becomes one blank
RECURSIVE Squash(_, _)
Squash(s, inRun) ==
  IF Len(s) = 0 THEN s
  ELSE IF IsAlnum(Char(s, 1)) THEN Char(s, 1) \o Squash(SubSeq(s, 2, Len(s)), FALSE)
  ELSE IF inRun THEN Squash(SubSeq(s, 2, Len(s)), TRUE)
  ELSE " " \o Squash(SubSeq(s, 2, Len(s)), TRUE)

norm(s) == Trim(Squash(toLowerCase(s), FALSE))

canonicalizeWovr(raw) ==
  LET n == norm(raw) IN
  IF n \in {"inspection passed repairable writeoff",
            "inspection passed repairable write off", "inspected write off"}
  THEN "Inspected Write-off"
  ELSE IF n = "repairable write off" THEN "Repairable Write-off"
  ELSE IF n = "statutory write off" THEN "Statutory Write-off"
  ELSE IF n \in {"wovr na", "wovr n a"} THEN "WOVR N/A"
  ELSE raw

----------------------------------------------------------------------------
(* The backend: the distinct values its procedures return *)

DbMakes == {"Toyota", "Ford"}
DbModels(make) ==
  IF make = "" THEN {"Hilux", "Ranger"}
  ELSE IF make = "Toyota" THEN {"Hilux"}
  ELSE IF make = "Ford" THEN {"Ranger"}
  ELSE {}
DbWovr == {"Statutory Write-off", "STATUTORY WRITE OFF", "Hail Damage"}
DbSaleStatus == {"SOLD", "Passed In"}
DbHouses == {"Pickles", "Manheim"}
DbStates == {"NSW", "VIC"}
DbDamage == {"Hail", "Hail, Flood", "Fire"}

\* loadAllOptions: canonical WOVR label -> its raw variants
WovrReverse(raws) ==
  LET labels == {canonicalizeWovr(r) : r \in raws \ {""}} \cup {"Inspected Write-off"}
  IN [c \in labels |->
        {r \in raws \ {""} : canonicalizeWovr(r) = c}
        \cup (IF c = "Inspected Write-off"
              THEN {"Inspection Passed Repairable Writeoff",
                    "Inspection Passed Repairable Write-off", "Inspected Write-off"}
              ELSE {})]

\* loadAllOptions: the tags of the comma-separated damage values
DamageTags(raws) ==
  UNION {{Trim(t) : t \in SeqRange(split(o))} \ {""} : o \in raws \ {""}}

DamageOptions(raws) == {"(ALL) " \o t : t \in DamageTags(raws)} \cup (raws \ {""})

EmptyOpts ==
  [make |-> {}, model |-> {}, wovr_status |-> {}, sale_status |-> {},
   incident_type |-> {}, auction_house |-> {}, state |-> {}]

\* What loadAllOptions(undefined) stores once its seven calls have answered
LoadedOpts ==
  [make |-> DbMakes, model |-> DbModels(""),
   wovr_status |-> DOMAIN WovrReverse(DbWovr), sale_status |-> DbSaleStatus,
   incident_type |-> DamageOptions(DbDamage), auction_house |-> DbHouses,
   state |-> DbStates]

LoadedWovrMap == WovrReverse(DbWovr)

EmptyMap == [v \in {} |-> 0]

----------------------------------------------------------------------------
(* fetchData: the query it builds *)

toStartOfDayISO(d) == [date |-> d, time |-> "00:00:00.000", zone |-> "local"]
toEndOfDayISO(d) == [date |-> d, time |-> "23:59:59.999", zone |-> "local"]

\* The swap of a numeric range, the bounds compared as strings
NormNumAsText(lo, hi) ==
  IF lo # "" /\ hi # "" /\ StrGT(lo, hi) THEN <<hi, lo>> ELSE <<lo, hi>>

\* The swap of a reversed numeric range
NormNum(lo, hi) ==
  IF lo # "" /\ hi # "" /\ Number(lo) > Number(hi) THEN <<hi, lo>> ELSE <<lo, hi>>

\* The swap of a reversed date range
NormDate(lo, hi) ==
  IF lo # "" /\ hi # "" /\ StrGT(lo, hi) THEN <<hi, lo>> ELSE <<lo, hi>>

\* The expansion without toLowerCase on the tag and on the tokens
ExpandDamageCaseSensitive(sel, allOpts) ==
  LET rawOpts == {o \in allOpts : ~startsWith(o, "(ALL) ")}
      OfSel(x) ==
        IF startsWith(x, "(ALL) ")
        THEN LET tag == Trim(slice(x, 6))
             IN {o \in rawOpts : tag \in {Trim(t) : t \in SeqRange(split(o))}}
        ELSE {x}
  IN UNION {OfSel(sel[i]) : i \in 1..Len(sel)}

\* The "(ALL) tag" expansion of the damage selection
ExpandDamage(sel, allOpts) ==
  LET rawOpts == {o \in allOpts : ~startsWith(o, "(ALL) ")}
      OfSel(x) ==
        IF startsWith(x, "(ALL) ")
        THEN LET tag == toLowerCase(Trim(slice(x, 6)))
             IN {o \in rawOpts :
                   tag \in {toLowerCase(Trim(t)) : t \in SeqRange(split(o))}}
        ELSE {x}
  IN UNION {OfSel(sel[i]) : i \in 1..Len(sel)}

\* An absent predicate is the empty set, a present one the singleton of its value
Opt(present, v) == IF present THEN {v} ELSE {}

\* The order column without the allow-list
sortColAny(s) == s.column

\* const sortCol = SORTABLE.has(sort.column) ? sort.column : 'id'
sortCol(s) == IF s.column \in SORTABLE THEN s.column ELSE "id"

\* The query fetchData builds from the values of its render
BuildQuery(d, s, p, ps, o, wmap) ==
  LET yr == NormNum(d.yearFrom, d.yearTo)
      pr == NormNum(d.priceMin, d.priceMax)
      dt == NormDate(d.dateFrom, d.dateTo)
      from == (p - 1) * ps
  IN [table |-> "vehicles_frontend", count |-> "exact",
      vin |-> Opt(Trim(d.vin) # "", Trim(d.vin)),
      buyer_number |-> Opt(Trim(d.buyer_no) # "", Trim(d.buyer_no)),
      make |-> Opt(d.make # "", d.make),
      model |-> Opt(d.model # "", d.model),
      year_gte |-> Opt(yr[1] # "", Number(yr[1])),
      year_lte |-> Opt(yr[2] # "", Number(yr[2])),
      wovr_status_in |-> Opt(d.wovr_status # "",
                             IF d.wovr_status \in DOMAIN wmap
                             THEN wmap[d.wovr_status] ELSE {d.wovr_status}),
      sale_status |-> Opt(d.sale_status # "", d.sale_status),
      incident_type_in |-> Opt(Len(d.incident_types) > 0,
                               ExpandDamage(d.incident_types, o.incident_type)),
      sold_price_gte |-> Opt(pr[1] # "", Number(pr[1])),
      sold_price_lte |-> Opt(pr[2] # "", Number(pr[2])),
      auction_house |-> Opt(d.auction_house # "", d.auction_house),
      state |-> Opt(d.state # "", d.state),
      sold_date_gte |-> Opt(dt[1] # "", toStartOfDayISO(dt[1])),
      sold_date_lte |-> Opt(dt[2] # "", toEndOfDayISO(dt[2])),
      order |-> sortCol(s),
      ascending |-> (s.direction = "asc"),
      from |-> from, to |-> from + ps - 1]

\* A fetchData invocation that always asks for the first page
NewFetchFirstPage(d, s, p, ps, o, wmap) ==
  [q |-> BuildQuery(d, s, 1, ps, o, wmap), phase |-> "query", data |-> <<>>, vins |-> {},
   counts |-> EmptyMap]

\* A fetchData invocation waiting for the response to its query
NewFetch(d, s, p, ps, o, wmap) ==
  [q |-> BuildQuery(d, s, p, ps, o, wmap), phase |-> "query", data |-> <<>>, vins |-> {},
   counts |-> EmptyMap]

\* The query that answers the current inputs
CurrentQuery == BuildQuery(debounced, sort, page, pageSize, opts, wovrVariantsMap)

RemoveAt(s, i) == SubSeq(s, 1, i - 1) \o SubSeq(s, i + 1, Len(s))

----------------------------------------------------------------------------
(* The insights effects (src/unnamed/part_003) *)

requiredReady(f) == f.make # "" /\ f.model # "" /\ f.yearFrom # "" /\ f.yearTo # ""

\* new Date(d).toISOString() of a date-only string: midnight UTC of that day
DateToISO(d) == [date |-> d, time |-> "00:00:00.000", zone |-> "UTC"]

deriveDamageFilters(f) ==
  LET sel == SeqRange(f.incident_types)
  IN [tags |-> {Trim(slice(x, 6)) : x \in {y \in sel : startsWith(y, "(ALL) ")}},
      variants |-> {y \in sel : ~startsWith(y, "(ALL) ")}]

\* The arguments of the ww_insights call
InsightsArgs(f, wmap) ==
  LET dmg == deriveDamageFilters(f) IN
  [p_make |-> f.make, p_model |-> f.model,
   p_year_from |-> Number(f.yearFrom), p_year_to |-> Number(f.yearTo),
   p_date_from |-> Opt(f.dateFrom # "", DateToISO(f.dateFrom)),
   p_date_to |-> Opt(f.dateTo # "", DateToISO(f.dateTo)),
   p_auction_house |-> Opt(f.auction_house # "", f.auction_house),
   p_state |-> Opt(f.state # "", f.state),
   p_damage_tags |-> Opt(dmg.tags # {}, dmg.tags),
   p_damage_variants |-> Opt(dmg.variants # {}, dmg.variants),
   p_vin |-> Opt(f.vin # "", f.vin),
   p_buyer_no |-> Opt(f.buyer_no # "", f.buyer_no),
   p_wovr_variants |-> Opt(f.wovr_status # "",
                           IF f.wovr_status \in DOMAIN wmap
                           THEN wmap[f.wovr_status] ELSE {f.wovr_status}),
   p_sale_status |-> Opt(f.sale_status # "", f.sale_status),
   p_price_min |-> Opt(f.priceMin # "", Number(f.priceMin)),
   p_price_max |-> Opt(f.priceMax # "", Number(f.priceMax))]

\* The query of the price-point fetch: the filters as they are, no range swap
PointsQuery(f, o, wmap) ==
  [table |-> "vehicles_frontend", count |-> "exact",
   vin |-> Opt(Trim(f.vin) # "", Trim(f.vin)),
   buyer_number |-> Opt(Trim(f.buyer_no) # "", Trim(f.buyer_no)),
   make |-> Opt(f.make # "", f.make),
   model |-> Opt(f.model # "", f.model),
   year_gte |-> Opt(f.yearFrom # "", Number(f.yearFrom)),
   year_lte |-> Opt(f.yearTo # "", Number(f.yearTo)),
   wovr_status_in |-> Opt(f.wovr_status # "",
                          IF f.wovr_status \in DOMAIN wmap
                          THEN wmap[f.wovr_status] ELSE {f.wovr_status}),
   sale_status |-> Opt(f.sale_status # "", f.sale_status),
   incident_type_in |-> Opt(Len(f.incident_types) > 0,
                            ExpandDamage(f.incident_types, o.incident_type)),
   sold_price_gte |-> Opt(f.priceMin # "", Number(f.priceMin)),
   sold_price_lte |-> Opt(f.priceMax # "", Number(f.priceMax)),
   auction_house |-> Opt(f.auction_house # "", f.auction_house),
   state |-> Opt(f.state # "", f.state),
   sold_date_gte |-> Opt(f.dateFrom # "", toStartOfDayISO(f.dateFrom)),
   sold_date_lte |-> Opt(f.dateTo # "", toEndOfDayISO(f.dateTo)),
   order |-> "sold_date", ascending |-> TRUE, limit |-> 2000]

----------------------------------------------------------------------------
(* One render and its effects *)

\* The state an event handler starts from; a handler returns it changed
Cur ==
  [filters |-> filters, debounced |-> debounced, timer |-> timer, sort |-> sort,
   page |-> page, pageSize |-> pageSize, history |-> history,
   direct |-> 0,            \* fetchData() calls made by the handler itself
   event |-> "",           \* the handler's name
   opts |-> opts, wovrVariantsMap |-> wovrVariantsMap, optsLoading |-> optsLoading,
   optsNew |-> FALSE,       \* loadAllOptions stored new option arrays
   optReqs |-> optReqs, modelReqs |-> modelReqs]

\* useEffect(..., [debounced, sort, page, pageSize]): a dependency changed (Object.is)
FetchDepsChanged(n) ==
  \/ n.debounced.id # debounced.id
  \/ n.sort.id # sort.id
  \/ n.page # page
  \/ n.pageSize # pageSize

\* The dependencies of the two insights effects: the filter fields by value and
\* the option arrays by identity (the incident_types array is compared by value)
InsightDepsChanged(n) == Val(n.filters) # Val(filters) \/ n.optsNew

\* The fetchData invocations an event starts: the handler's own calls, made in
\* the render it belongs to, then the fetch effect's call in the new render
FetchesStarted(n) ==
  [i \in 1..n.direct |->
     NewFetch(debounced, sort, page, pageSize, opts, wovrVariantsMap)]
  \o (IF FetchDepsChanged(n)
      THEN <<NewFetch(n.debounced, n.sort, n.page, n.pageSize, n.opts, n.wovrVariantsMap)>>
      ELSE <<>>)

\* useDebounce without its cleanup: a pending timeout is left to fire
DebounceEffectNoRestart(n) ==
  /\ timer' = IF n.filters.id # filters.id /\ n.timer = -1 THEN DEBOUNCE_MS ELSE n.timer
  /\ quiet' = IF n.filters.id # filters.id THEN 0 ELSE quiet

\* useDebounce: a new filters object cancels the timeout and starts one of ms
DebounceEffect(n) ==
  /\ timer' = IF n.filters.id # filters.id THEN DEBOUNCE_MS ELSE n.timer
  /\ quiet' = IF n.filters.id # filters.id THEN 0 ELSE quiet

\* The make effect: useEffect(..., [filters.make])
MakeEffect(n) ==
  IF n.filters.make = filters.make
  THEN /\ optReqs' = n.optReqs
       /\ modelReqs' = n.modelReqs
       /\ optsLoading' = n.optsLoading
  ELSE IF n.filters.make = ""
  THEN /\ optReqs' = n.optReqs + 1
       /\ modelReqs' = n.modelReqs
       /\ optsLoading' = TRUE
  ELSE /\ optReqs' = n.optReqs
       /\ modelReqs' = Append(n.modelReqs, [make |-> n.filters.make, model |-> n.filters.model])
       /\ optsLoading' = n.optsLoading

\* The cleanup of the insights effect sets its own cancelled flag
CancelAll(reqs) == [i \in 1..Len(reqs) |-> [reqs[i] EXCEPT !.cancelled = TRUE]]

\* The ww_insights effect
InsightsEffect(n) ==
  IF ~InsightDepsChanged(n)
  THEN UNCHANGED <<insights, insightsLoading, insReqs>>
  ELSE IF ~requiredReady(n.filters)
  THEN /\ insights' = {}
       /\ insightsLoading' = insightsLoading
       /\ insReqs' = CancelAll(insReqs)
  ELSE /\ insights' = insights
       /\ insightsLoading' = TRUE
       /\ insReqs' = Append(CancelAll(insReqs),
                            [cancelled |-> FALSE,
                             args |-> InsightsArgs(n.filters, n.wovrVariantsMap)])

\* The price-point effect
PointsEffect(n) ==
  IF ~InsightDepsChanged(n)
  THEN UNCHANGED <<pricePoints, ptReqs>>
  ELSE IF ~requiredReady(n.filters)
  THEN /\ pricePoints' = <<>>
       /\ ptReqs' = ptReqs
  ELSE /\ pricePoints' = pricePoints
       /\ ptReqs' = Append(ptReqs, [q |-> PointsQuery(n.filters, n.opts, n.wovrVariantsMap)])

\* An invocation of fetchData keeps no handle on the earlier ones and aborts
\* none of them: they stay in flight beside the new ones
InvokeAborting(new) == IF Len(new) > 0 THEN new ELSE inflight

Invoke(new) == inflight \o new

\* The states set by the event and the effects of the render that follows
Render(n) ==
  LET new == FetchesStarted(n) IN
  /\ filters' = n.filters
  /\ debounced' = n.debounced
  /\ sort' = n.sort
  /\ page' = n.page
  /\ pageSize' = n.pageSize
  /\ history' = n.history
  /\ opts' = n.opts
  /\ wovrVariantsMap' = n.wovrVariantsMap
  /\ DebounceEffect(n)
  /\ MakeEffect(n)
  /\ inflight' = Invoke(new)
  /\ started' = Len(new)
  /\ event' = n.event
  /\ loading' = IF Len(new) > 0 THEN TRUE ELSE loading
  /\ error' = IF Len(new) > 0 THEN "" ELSE error
  /\ InsightsEffect(n)
  /\ PointsEffect(n)
  /\ UNCHANGED resultVars

----------------------------------------------------------------------------
(* Event handlers: each returns the state its setState calls ask for *)

\* A new object literal { ...f, [k]: v }
\* ({ ...f, [k]: v }) without the spread of f's other fields
SpreadOnly(f, k, v) == [INITIAL_FILTERS EXCEPT ![k] = v, !.id = Fresh(FilterIds)]

Spread(f, k, v) == [f EXCEPT ![k] = v, !.id = Fresh(FilterIds)]

\* update without its setPage(1)
updateKeepingPage(k, v) ==
  [Cur EXCEPT !.event = "update", !.filters = Spread(filters, k, v)]

update(k, v) ==
  [Cur EXCEPT !.event = "update", !.page = 1, !.filters = Spread(filters, k, v)]

\* toggleSort without the SORTABLE test of its first line
toggleSortAny(col) ==
  [Cur EXCEPT !.event = "toggleSort", !.sort =
     [column |-> col,
      direction |-> IF sort.column = col /\ sort.direction = "asc" THEN "desc" ELSE "asc",
      id |-> Fresh(SortIds)]]

toggleSort(col) ==
  IF col \notin SORTABLE THEN [Cur EXCEPT !.event = "toggleSort"]
  ELSE [Cur EXCEPT !.event = "toggleSort", !.sort =
          [column |-> col,
           direction |-> IF sort.column = col /\ sort.direction = "asc" THEN "desc" ELSE "asc",
           id |-> Fresh(SortIds)]]

\* clearFilters that keeps the VIN field
clearFiltersKeepingVin ==
  [Cur EXCEPT !.event = "clearFilters",
              !.filters = [INITIAL_FILTERS EXCEPT !.vin = filters.vin],
              !.page = 1, !.history = <<>>]

clearFilters ==
  [Cur EXCEPT !.event = "clearFilters",
              !.filters = INITIAL_FILTERS, !.page = 1, !.history = <<>>]

Snapshot == [filters |-> filters, page |-> page, sort |-> sort, pageSize |-> pageSize]

\* focusVinAll without the early return on an empty vin
focusVinAllNoGuard(vin) ==
  [Cur EXCEPT !.event = "focusVinAll",
              !.history = Append(history, Snapshot),
              !.page = 1,
              !.filters = Spread(INITIAL_FILTERS, "vin", vin)]

focusVinAll(vin) ==
  IF vin = "" THEN [Cur EXCEPT !.event = "focusVinAll"]
  ELSE [Cur EXCEPT !.event = "focusVinAll",
                   !.history = Append(history, Snapshot),
                   !.page = 1,
                   !.filters = Spread(INITIAL_FILTERS, "vin", vin)]

\* goBack restoring the oldest snapshot instead of the last
goBackOldest ==
  IF Len(history) = 0 THEN [Cur EXCEPT !.event = "goBack"]
  ELSE LET snap == history[1] IN
       [Cur EXCEPT !.event = "goBack",
                   !.history = Tail(history),
                   !.filters = snap.filters,
                   !.page = snap.page,
                   !.sort = snap.sort,
                   !.pageSize = snap.pageSize]

goBack ==
  IF Len(history) = 0 THEN [Cur EXCEPT !.event = "goBack"]
  ELSE LET snap == history[Len(history)] IN
       [Cur EXCEPT !.event = "goBack",
                   !.history = SubSeq(history, 1, Len(history) - 1),
                   !.filters = snap.filters,
                   !.page = snap.page,
                   !.sort = snap.sort,
                   !.pageSize = snap.pageSize]

\* The Search button: setPage(1); fetchData()
searchClick == [Cur EXCEPT !.event = "search", !.page = 1, !.direct = 1]

prevPage == [Cur EXCEPT !.event = "prev", !.page = Max(1, page - 1)]
\* The Next handler without Math.min(totalPages, ...)
nextPageUnclamped == [Cur EXCEPT !.event = "next", !.page = page + 1]

nextPage == [Cur EXCEPT !.event = "next", !.page = Min(totalPages, page + 1)]
setPageSize(n) == [Cur EXCEPT !.event = "setPageSize", !.pageSize = n]

\* The timeout of useDebounce: setV(val); val is the filters of the render
\* that started it, which is the latest one
debounceFire == [Cur EXCEPT !.event = "debounce", !.debounced = filters, !.timer = -1]

----------------------------------------------------------------------------
(* User events, with the conditions under which the page offers them *)

SelectKeys == {"make", "model", "wovr_status", "sale_status", "auction_house", "state"}

\* onInput / onSelect: a <select> offers '' and its options and is disabled
\* while the options load
InputChange(k, v) ==
  /\ v # filters[k]
  /\ k \in SelectKeys => ~optsLoading /\ (v = "" \/ v \in opts[k])
  /\ Render(update(k, v))

SearchClick == ~loading /\ Render(searchClick)

ClearClick == ~loading /\ Render(clearFilters)

\* disabled={history.length === 0 || loading} of the Back button
BackDisabled == Len(history) = 0 \/ loading

BackClick == ~BackDisabled /\ Render(goBack)

\* The badge of row i is shown when vinCounts[r.vin] > 1
\* vinCounts[r.vin] > 1: the badge of a row; a VIN without an entry has none
vinBadge(r) == r.vin \in DOMAIN vinCounts /\ vinCounts[r.vin] > 1

VinBadgeClick(i) ==
  /\ i \in 1..Len(rows)
  /\ vinBadge(rows[i])
  /\ Render(focusVinAll(rows[i].vin))

PrevClick == page > 1 /\ Render(prevPage)

NextClick == page < totalPages /\ Render(nextPage)

PageSizeChange(n) == n \in PageSizes /\ n # pageSize /\ Render(setPageSize(n))

HeaderClick(col) == Render(toggleSort(col))

----------------------------------------------------------------------------
(* Time *)

Tick ==
  /\ timer > 0 \/ quiet < DEBOUNCE_MS
  /\ timer' = IF timer > 0 THEN Max(0, timer - TickStep) ELSE timer
  /\ quiet' = Min(DEBOUNCE_MS, quiet + TickStep)
  /\ started' = 0 /\ event' = "tick"
  /\ UNCHANGED <<filters, debounced, sort, page, pageSize, history, loading, error, inflight>>
  /\ UNCHANGED <<resultVars, optVars, insightVars>>

DebounceFire == timer = 0 /\ Render(debounceFire)

----------------------------------------------------------------------------
(* Responses of the main query *)

nonUi == <<filters, debounced, timer, quiet, sort, page, pageSize, history>>

\* fetchData with setLoading(false) before the await of fetchVinCounts
FetchSuccessLoadingEarly(i, data, count) ==
  /\ i \in 1..Len(inflight)
  /\ inflight[i].phase = "query"
  /\ rows' = data
  /\ total' = count
  /\ rowsOf' = {inflight[i].q}
  /\ loading' = FALSE
  /\ LET vins == {data[j].vin : j \in 1..Len(data)} \ {""} IN
     IF vins = {}
     THEN /\ vinCounts' = EmptyMap
          /\ inflight' = RemoveAt(inflight, i)
     ELSE /\ vinCounts' = vinCounts
          /\ inflight' = [inflight EXCEPT ![i] = [@ EXCEPT !.phase = "vins", !.data = data, !.vins = vins]]
  /\ started' = 0 /\ event' = "fetchSuccess"
  /\ UNCHANGED <<nonUi, error, optVars, insightVars>>

\* The query answered with data and count
FetchSuccess(i, data, count) ==
  /\ i \in 1..Len(inflight)
  /\ inflight[i].phase = "query"
  /\ rows' = data
  /\ total' = count
  /\ rowsOf' = {inflight[i].q}
  /\ LET vins == {data[j].vin : j \in 1..Len(data)} \ {""} IN
     IF vins = {}
     THEN /\ vinCounts' = EmptyMap
          /\ loading' = FALSE
          /\ inflight' = RemoveAt(inflight, i)
     ELSE /\ vinCounts' = vinCounts
          /\ loading' = loading
          /\ inflight' = [inflight EXCEPT ![i] = [@ EXCEPT !.phase = "vins", !.data = data, !.vins = vins]]
  /\ started' = 0 /\ event' = "fetchSuccess"
  /\ UNCHANGED <<nonUi, error, optVars, insightVars>>

\* The query answered with an error whose message is msg
FetchFail(i, msg) ==
  /\ i \in 1..Len(inflight)
  /\ inflight[i].phase = "query"
  /\ error' = IF msg = "" THEN "Failed to fetch" ELSE msg
  /\ rows' = <<>>
  /\ total' = 0
  /\ vinCounts' = EmptyMap
  /\ rowsOf' = {}
  /\ loading' = FALSE
  /\ inflight' = RemoveAt(inflight, i)
  /\ started' = 0 /\ event' = "fetchFail"
  /\ UNCHANGED <<nonUi, optVars, insightVars>>

\* One count call of fetchVinCounts has answered: c is the count, 0 when the
\* call failed; Promise.all keeps it until the others have answered
VinCountAnswered(i, v, c) ==
  /\ i \in 1..Len(inflight)
  /\ inflight[i].phase = "vins"
  /\ v \in inflight[i].vins \ DOMAIN inflight[i].counts
  /\ inflight' = [inflight EXCEPT ![i].counts = (v :> c) @@ @]
  /\ started' = 0 /\ event' = "vinCount"
  /\ UNCHANGED <<nonUi, loading, error, resultVars, optVars, insightVars>>

\* setVinCounts without waiting for every count call
VinCountsDoneEarly(i, counts) ==
  /\ i \in 1..Len(inflight)
  /\ inflight[i].phase = "vins"
  /\ vinCounts' = counts
  /\ loading' = FALSE
  /\ inflight' = RemoveAt(inflight, i)
  /\ started' = 0 /\ event' = "vinCounts"
  /\ UNCHANGED <<nonUi, rows, total, rowsOf, error, optVars, insightVars>>

\* All the VIN count calls of fetchVinCounts have answered
VinCountsDone(i, counts) ==
  /\ i \in 1..Len(inflight)
  /\ inflight[i].phase = "vins"
  /\ DOMAIN counts = inflight[i].vins
  /\ vinCounts' = counts
  /\ loading' = FALSE
  /\ inflight' = RemoveAt(inflight, i)
  /\ started' = 0 /\ event' = "vinCounts"
  /\ UNCHANGED <<nonUi, rows, total, rowsOf, error, optVars, insightVars>>

----------------------------------------------------------------------------
(* Responses of the option calls *)

\* The seven calls of one loadAllOptions have answered
OptionsDone ==
  /\ optReqs > 0
  /\ Render([Cur EXCEPT !.event = "loadAllOptions",
                        !.opts = LoadedOpts, !.wovrVariantsMap = LoadedWovrMap,
                        !.optsLoading = FALSE, !.optsNew = TRUE,
                        !.optReqs = optReqs - 1])

\* The same, testing the model selected when the response arrives
ModelDoneLatest(i, models) ==
  /\ i \in 1..Len(modelReqs)
  /\ Render([Cur EXCEPT
       !.event = IF filters.model # "" /\ filters.model \notin models
                 THEN "modelCleared" ELSE "modelKept",
       !.opts = [opts EXCEPT !.model = models],
       !.filters = IF filters.model # "" /\ filters.model \notin models
                   THEN Spread(filters, "model", "") ELSE filters,
       !.modelReqs = RemoveAt(modelReqs, i)])

\* The distinct_model call of the make effect has answered with models
ModelDone(i, models) ==
  /\ i \in 1..Len(modelReqs)
  /\ LET r == modelReqs[i] IN
     Render([Cur EXCEPT
       !.event = IF r.model # "" /\ r.model \notin models
                 THEN "modelCleared" ELSE "modelKept",
       !.opts = [opts EXCEPT !.model = models],
       !.filters = IF r.model # "" /\ r.model \notin models
                   THEN Spread(filters, "model", "") ELSE filters,
       !.modelReqs = RemoveAt(modelReqs, i)])

----------------------------------------------------------------------------
(* Responses of the insights calls *)

fetchVars == <<loading, error, inflight>>

\* ww_insights answered: res is {} for an error or data.ok false, else {data}
InsightsDone(i, res) ==
  /\ i \in 1..Len(insReqs)
  /\ insReqs' = RemoveAt(insReqs, i)
  /\ IF insReqs[i].cancelled
     THEN UNCHANGED <<insights, insightsLoading>>
     ELSE /\ insights' = res
          /\ insightsLoading' = FALSE
  /\ started' = 0 /\ event' = "insights"
  /\ UNCHANGED <<nonUi, fetchVars, resultVars, optVars, pricePoints, ptReqs>>

\* The price-point query answered: pts is <<>> for an error
PointsDone(i, pts) ==
  /\ i \in 1..Len(ptReqs)
  /\ ptReqs' = RemoveAt(ptReqs, i)
  /\ pricePoints' = pts
  /\ started' = 0 /\ event' = "points"
  /\ UNCHANGED <<nonUi, fetchVars, resultVars, optVars, insights, insightsLoading, insReqs>>

----------------------------------------------------------------------------
(* The page after it has mounted: every effect has run once *)

Init ==
  /\ filters = INITIAL_FILTERS
  /\ debounced = INITIAL_FILTERS
  /\ timer = DEBOUNCE_MS
  /\ quiet = 0
  /\ sort = InitialSort
  /\ page = 1
  /\ pageSize = InitialPageSize
  /\ history = <<>>
  /\ rows = <<>>
  /\ total = 0
  /\ loading = TRUE
  /\ error = ""
  /\ vinCounts = EmptyMap
  /\ inflight = <<NewFetch(INITIAL_FILTERS, InitialSort, 1, InitialPageSize, EmptyOpts, EmptyMap)>>
  /\ rowsOf = {}
  /\ started = 1
  /\ event = "mount"
  /\ opts = EmptyOpts
  /\ optsLoading = TRUE
  /\ wovrVariantsMap = EmptyMap
  /\ optReqs = 2
  /\ modelReqs = <<>>
  /\ insights = {}
  /\ insightsLoading = FALSE
  /\ pricePoints = <<>>
  /\ insReqs = <<>>
  /\ ptReqs = <<>>

----------------------------------------------------------------------------
(* The inputs and the responses the specifications draw from *)

R1 == [id |-> 1, vin |-> "VIN1"]

VinInputs == {<<"vin", "VIN1">>, <<"vin", "">>}
PageSizeInputs == {25, 100}
SortInputs == {"sold_date", "link"}

\* (data, count) of a successful response
FetchResponses == {<<<<>>, 0>>, <<<<>>, 57>>, <<<<R1>>, 57>>}
ErrorMessages == {"", "network error"}
CountChoices == {1, 2}

----------------------------------------------------------------------------------------------------------------------------------------
(* The specifications.  Each one offers the events of one part of the page *)
(* and bounds the calls in flight; an event that would exceed the bound is *)
(* not taken.                                                              *)

\* At most k fetchData invocations in flight, and the other calls within bounds
Within(k) ==
  /\ Len(inflight) <= k
  /\ optReqs <= MaxOptReqs
  /\ Len(modelReqs) <= MaxModelReqs
  /\ Len(insReqs) <= MaxInsReqs
  /\ Len(ptReqs) <= MaxPtReqs

(* Paging, sorting and the main query, with overlapping invocations *)
Next ==
  \/ SearchClick /\ Within(MaxInFlight)'
  \/ PrevClick /\ Within(MaxInFlight)'
  \/ NextClick /\ Within(MaxInFlight)'
  \/ \E n \in PageSizeInputs : PageSizeChange(n) /\ Within(MaxInFlight)'
  \/ \E c \in SortInputs : HeaderClick(c) /\ Within(MaxInFlight)'
  \/ \E i \in 1..Len(inflight), r \in FetchResponses : FetchSuccess(i, r[1], r[2])
  \/ \E i \in 1..Len(inflight), msg \in ErrorMessages : FetchFail(i, msg)
  \/ \E i \in 1..Len(inflight) :
       \E counts \in [inflight[i].vins -> CountChoices] : VinCountsDone(i, counts)

Spec == Init /\ [][Next]_vars

\* C1: an invocation of fetchData that starts while others are in flight
\* cancels none of them, and an older invocation answered without error
\* puts its own rows on display whatever was started after it.
C1_OverlapNotCancelled ==
  [][ /\ started' > 0
           => /\ Len(inflight') = Len(inflight) + started'
              /\ SubSeq(inflight', 1, Len(inflight)) = inflight
      /\ \A i \in 1..Len(inflight) :
           ( /\ i < Len(inflight)
             /\ inflight[i].phase = "query"
             /\ inflight' = RemoveAt(inflight, i)
             /\ error' = "" )
           => rowsOf' = {inflight[i].q} ]_vars

\* C1: nothing is in flight and the rows on display answer another query
\* than the one the current filters, sort, page and page size describe
C1_StaleDisplayed ==
  /\ inflight = <<>>
  /\ error = ""
  /\ rowsOf # {}
  /\ rowsOf # {CurrentQuery}

\* C2: the page is always between 1 and the number of pages
C2_PageInRange == 1 <= page /\ page <= totalPages

\* C2: the page is beyond the last page while nothing is in flight
C2_PageBeyondLast == inflight = <<>> /\ page > totalPages

\* C5: every invocation of fetchData that ends leaves either the success
\* state (error empty) or the failure state (no rows, total 0, error
\* non-empty), and loading false.
C5_TwoOutcomes ==
  [][ Len(inflight') < Len(inflight)
        => /\ loading' = FALSE
           /\ \/ error' = ""
              \/ rows' = <<>> /\ total' = 0 /\ error' # "" ]_vars

\* C5: rows are on display beside an error message, nothing is in flight
C5_RowsWithError == inflight = <<>> /\ rows # <<>> /\ error # ""

(* Every change of the filters, with paging; each main query is answered *)
(* before the next one starts                                            *)
\* The fields of FilterState
FilterFields == DOMAIN INITIAL_FILTERS \ {"id"}

MakeModelInputs == {<<"make", "Ford">>, <<"model", "Hilux">>}

NextPageReset ==
  \/ \E kv \in MakeModelInputs : InputChange(kv[1], kv[2]) /\ Within(MaxSequential)'
  \/ ClearClick /\ Within(MaxSequential)'
  \/ BackClick /\ Within(MaxSequential)'
  \/ \E i \in 1..Len(rows) :
       VinBadgeClick(i) /\ Within(MaxSequential)' /\ Len(history') <= MaxHistory
  \/ NextClick /\ Within(MaxSequential)'
  \/ \E i \in 1..Len(inflight) : FetchSuccess(i, <<R1>>, 57)
  \/ \E i \in 1..Len(inflight) :
       \E counts \in [inflight[i].vins -> {2}] : VinCountsDone(i, counts)
  \/ OptionsDone
  \/ \E i \in 1..Len(modelReqs) : ModelDone(i, DbModels(modelReqs[i].make))

SpecPageReset == Init /\ [][NextPageReset]_vars

\* C14: in every state, update(k, v) asks for filters with field k equal to v
\* and every other field as it is, for page 1, and for the same sort, page
\* size and history; and the step an input change takes ends with page 1,
\* exactly one filter field changed, and sort, page size, history, rows and
\* total as they were.
C14_UpdateFrame ==
  /\ [](\A kv \in MakeModelInputs \cup VinInputs :
          LET n == update(kv[1], kv[2]) IN
          /\ n.filters[kv[1]] = kv[2]
          /\ \A j \in FilterFields \ {kv[1]} : n.filters[j] = filters[j]
          /\ n.page = 1
          /\ n.sort = sort /\ n.pageSize = pageSize /\ n.history = history)
  /\ [][event' = "update" =>
          /\ page' = 1
          /\ Cardinality({j \in FilterFields : filters'[j] # filters[j]}) = 1
          /\ sort' = sort /\ pageSize' = pageSize /\ history' = history
          /\ rows' = rows /\ total' = total]_vars

\* C14: the model was just selected while a make was set and a result of
\* 57 rows was on display; the make and the result are still there
C14_ModelChosenBesideMake ==
  /\ event = "update" /\ filters.model = "Hilux" /\ filters.make # ""
  /\ page = 1 /\ total = 57 /\ rows # <<>>

NextHistory ==
  \/ ClearClick /\ Within(MaxSequential)'
  \/ BackClick /\ Within(MaxSequential)'
  \/ \E i \in 1..Len(rows) :
       VinBadgeClick(i) /\ Within(MaxSequential)' /\ Len(history') <= MaxNested
  \/ NextClick /\ Within(MaxSequential)'
  \/ PageSizeChange(100) /\ Within(MaxSequential)'
  \/ HeaderClick("sold_date") /\ Within(MaxSequential)'
  \/ \E i \in 1..Len(inflight) : FetchSuccess(i, <<R1>>, 57)
  \/ \E i \in 1..Len(inflight) :
       \E counts \in [inflight[i].vins -> {2}] : VinCountsDone(i, counts)

SpecHistory == Init /\ [][NextHistory]_vars

\* C15: in every state, clearFilters asks for INITIAL_FILTERS, page 1 and the
\* same sort and page size; and the step the Clear button takes ends with
\* every filter field at its initial value and page 1, with sort and page
\* size as they were.
C15_ClearFilters ==
  /\ [](LET n == clearFilters IN
        /\ \A j \in FilterFields : n.filters[j] = INITIAL_FILTERS[j]
        /\ n.page = 1
        /\ n.sort = sort /\ n.pageSize = pageSize)
  /\ [][event' = "clearFilters" =>
          /\ \A j \in FilterFields : filters'[j] = INITIAL_FILTERS[j]
          /\ page' = 1
          /\ sort' = sort /\ pageSize' = pageSize]_vars

\* C15: Clear has just been pressed with 100 rows per page sorted ascending
C15_ClearedKeepingSortAndSize ==
  /\ event = "clearFilters" /\ filters = INITIAL_FILTERS /\ page = 1
  /\ pageSize = 100 /\ sort.direction = "asc"

\* C29: clearFilters leaves the history empty and the Back button disabled;
\* goBack on an empty history asks for no change of filters, page, sort,
\* page size or history; focusVinAll with a non-empty vin makes the history
\* one longer, and with an empty vin asks for no change.
C29_HistoryLength ==
  /\ [](/\ clearFilters.history = <<>>
        /\ history = <<>> => goBack = [Cur EXCEPT !.event = "goBack"]
        /\ \A vin \in {"", "VIN1", "VIN2"} :
             LET n == focusVinAll(vin) IN
             IF vin = "" THEN n = [Cur EXCEPT !.event = "focusVinAll"]
             ELSE Len(n.history) = Len(history) + 1)
  /\ [][event' = "clearFilters" => (history' = <<>> /\ BackDisabled')]_vars
  /\ [][event' = "focusVinAll" => Len(history') = Len(history) + 1]_vars
  /\ [][event' = "goBack" => Len(history') = Len(history) - 1]_vars

\* C29: a second drill-down has just been made from inside the first, and
\* the history holds both views
C29_TwoDeep ==
  /\ event = "focusVinAll" /\ Len(history) = MaxNested
  /\ history[1].filters.vin = "" /\ history[2].filters.vin # ""

\* C8: focusVinAll pushes the snapshot of the state it leaves and shows the
\* VIN alone on page 1; goBack restores the last snapshot exactly and pops
\* it; the history changes only by a push, a pop of the last or a reset.
C8_HistoryLifo ==
  [][ /\ event' = "focusVinAll"
           => /\ history' = Append(history, Snapshot)
              /\ filters'.vin # ""
              /\ Val(filters') = [Val(INITIAL_FILTERS) EXCEPT !.vin = filters'.vin]
              /\ page' = 1
              /\ sort' = sort /\ pageSize' = pageSize
      /\ event' = "goBack"
           => /\ history # <<>>
              /\ [filters |-> filters', page |-> page', sort |-> sort',
                  pageSize |-> pageSize'] = history[Len(history)]
              /\ history' = SubSeq(history, 1, Len(history) - 1)
      /\ history' # history
           => \/ history' = Append(history, Snapshot)
              \/ history' = SubSeq(history, 1, Len(history) - 1)
              \/ history' = <<>> ]_vars

\* C8: goBack has just left the inner of two nested drill-downs and restored
\* a view that was on a later page, the outer snapshot still on the stack
C8_BackToNestedView ==
  /\ event = "goBack"
  /\ Len(history) = 1
  /\ filters.vin # ""
  /\ page > 1

(* The debounce and the fetch effect *)
NextDebounce ==
  \/ Tick
  \/ DebounceFire /\ Within(MaxInFlight)'
  \/ \E kv \in VinInputs : InputChange(kv[1], kv[2]) /\ Within(MaxInFlight)'
  \/ SearchClick /\ Within(MaxInFlight)'
  \/ NextClick /\ Within(MaxInFlight)'
  \/ PageSizeChange(100) /\ Within(MaxInFlight)'
  \/ HeaderClick("sold_date") /\ Within(MaxInFlight)'
  \/ \E i \in 1..Len(inflight) : FetchSuccess(i, <<>>, 57)

SpecDebounce == Init /\ [][NextDebounce]_vars

\* C6: each step issues exactly one main query when the debounced filters,
\* the sort, the page or the page size changed in it, and none otherwise
C6_OneQueryPerChange ==
  [][started' = IF \/ debounced'.id # debounced.id
                   \/ sort'.id # sort.id
                   \/ page' # page
                   \/ pageSize' # pageSize
                THEN 1 ELSE 0]_vars

\* C6: the Search button pressed on a later page has issued two queries
C6_SearchIssuedTwo == event = "search" /\ started = 2 /\ page = 1

(* The debounce alone; the timeout fires when due, and the user changes *)
(* the VIN only while fewer than MaxInFlight queries are unanswered     *)
NextDebounceFair ==
  \/ Tick
  \/ DebounceFire
  \/ \E kv \in VinInputs :
       Len(inflight) < MaxInFlight /\ InputChange(kv[1], kv[2])
  \/ \E i \in 1..Len(inflight) : FetchSuccess(i, <<>>, 57)

SpecDebounceFair ==
  Init /\ [][NextDebounceFair]_vars /\ WF_vars(Tick) /\ WF_vars(DebounceFire)

\* C7: the debounced filters change only after DEBOUNCE_MS without a change
\* of the filters, and then to the current filters, starting at most one
\* query; a change of the filters restarts the timeout; once the timeout
\* has fired the debounced filters are the current ones; and unless the
\* filters keep changing for ever, the debounced filters end up equal to them.
C7_Debounce ==
  /\ [][ /\ debounced' # debounced
              => /\ quiet >= DEBOUNCE_MS
                 /\ debounced' = filters
                 /\ started' <= 1
         /\ filters' # filters => timer' = DEBOUNCE_MS /\ quiet' = 0 ]_vars
  /\ [](timer = -1 => debounced = filters)
  /\ ([]<><<filters' # filters>>_vars \/ <>[](debounced = filters))

\* C7: the debounced filters have just caught up with filters that were
\* changed more than once since the last update
C7_BurstSettled ==
  /\ event = "debounce"
  /\ debounced = filters
  /\ debounced.id > 1
  /\ started = 1

(* The make and model selects and the option calls *)
MakeInputs ==
  {<<"make", "Toyota">>, <<"make", "Ford">>, <<"make", "">>,
   <<"model", "Hilux">>, <<"model", "Ranger">>}

\* data of a distinct_model response: the models of the make, or null
ModelResponses(make) == {DbModels(make), {}}

NextMake ==
  \/ \E kv \in MakeInputs : InputChange(kv[1], kv[2]) /\ Within(MaxSequential)'
  \/ OptionsDone
  \/ \E i \in 1..Len(modelReqs) :
       \E models \in ModelResponses(modelReqs[i].make) : ModelDone(i, models)
  \/ \E i \in 1..Len(inflight) : FetchSuccess(i, <<>>, 57)

SpecMake == Init /\ [][NextMake]_vars

\* C9: when the distinct_model call made for a new non-empty make answers,
\* the model options become the list returned for that make; the model is
\* cleared when the model selected at the change of make is not in the list
\* and the filters stay as they are when it is in the list or was empty.
C9_ModelListAndSelection ==
  [][event' \in {"modelCleared", "modelKept"} =>
       \E i \in 1..Len(modelReqs) :
         LET r == modelReqs[i] IN
         /\ modelReqs' = RemoveAt(modelReqs, i)
         /\ r.make # ""
         /\ opts'.model \in ModelResponses(r.make)
         /\ opts' = [opts EXCEPT !.model = opts'.model]
         /\ IF r.model # "" /\ r.model \notin opts'.model
            THEN Val(filters') = [Val(filters) EXCEPT !.model = ""]
            ELSE filters' = filters]_vars

\* C9: the answer for make Ford has just cleared the model Hilux, and the
\* model options are Ford's models
C9_ModelCleared ==
  /\ event = "modelCleared"
  /\ filters.make = "Ford"
  /\ filters.model = ""
  /\ opts.model = {"Ranger"}

\* C28: an answer of distinct_model clears the model only when the model
\* selected as the answer arrives is not in the returned list, and an answer
\* for a make other than the selected one, arriving when no call for the
\* selected make is pending, leaves the model options and the filters alone.
C28_ModelClearedOnArrival ==
  /\ [][event' = "modelCleared" =>
          (filters.model # "" /\ filters.model \notin opts'.model)]_vars
  /\ [][event' \in {"modelCleared", "modelKept"} =>
          \E i \in 1..Len(modelReqs) :
            /\ modelReqs' = RemoveAt(modelReqs, i)
            /\ (/\ filters.make # ""
                /\ modelReqs[i].make # filters.make
                /\ \A j \in 1..Len(modelReqs) : modelReqs[j].make # filters.make)
               => (opts' = opts /\ filters' = filters)]_vars

\* C28: the make is Ford, no distinct_model call is pending, and the answer
\* that arrived last has left Toyota's models as the model options
C28_ModelsOfEarlierMake ==
  /\ event \in {"modelCleared", "modelKept"}
  /\ filters.make = "Ford"
  /\ modelReqs = <<>>
  /\ opts.model = DbModels("Toyota")

(* The insights panel: the four required filters and the two insights calls *)
InsightInputs ==
  {<<"make", "Toyota">>, <<"model", "Hilux">>,
   <<"yearFrom", "2018">>, <<"yearTo", "2020">>, <<"yearTo", "">>,
   <<"yearTo", "2016">>, <<"dateTo", "2024-01-05">>}

\* data of a ww_insights response: none (error or ok false) or a snapshot
InsightResponses == {{}, {[ok |-> TRUE, count |-> 1]}}

\* The points made of a price-point response: none (error or no rows) or one
PointResponses == {<<>>, <<[t |-> 1, p |-> 100]>>}

NextInsights ==
  \/ \E kv \in InsightInputs : InputChange(kv[1], kv[2]) /\ Within(MaxSequential)'
  \/ OptionsDone /\ Within(MaxSequential)'
  \/ \E i \in 1..Len(modelReqs) :
       ModelDone(i, DbModels(modelReqs[i].make)) /\ Within(MaxSequential)'
  \/ \E i \in 1..Len(insReqs), res \in InsightResponses : InsightsDone(i, res)
  \/ \E i \in 1..Len(ptReqs), pts \in PointResponses : PointsDone(i, pts)

SpecInsights == Init /\ [][NextInsights]_vars

\* The predicates of a query on the vehicles view, without order and range
PredKeys ==
  {"vin", "buyer_number", "make", "model", "year_gte", "year_lte",
   "wovr_status_in", "sale_status", "incident_type_in", "sold_price_gte",
   "sold_price_lte", "auction_house", "state", "sold_date_gte", "sold_date_lte"}

Preds(q) == [k \in PredKeys |-> q[k]]

\* The arguments of ww_insights under the names of the predicates they stand
\* for; the damage arguments are expanded by the server and are left out
InsightsPreds(a) ==
  [vin |-> a.p_vin, buyer_number |-> a.p_buyer_no,
   make |-> {a.p_make}, model |-> {a.p_model},
   year_gte |-> {a.p_year_from}, year_lte |-> {a.p_year_to},
   wovr_status_in |-> a.p_wovr_variants, sale_status |-> a.p_sale_status,
   sold_price_gte |-> a.p_price_min, sold_price_lte |-> a.p_price_max,
   auction_house |-> a.p_auction_house, state |-> a.p_state,
   sold_date_gte |-> a.p_date_from, sold_date_lte |-> a.p_date_to]

\* C25: in every state in which no uncancelled ww_insights request is in
\* flight, insightsLoading is false.
C25_InsightsLoadingEnds ==
  (\A i \in 1..Len(insReqs) : insReqs[i].cancelled) => ~insightsLoading

\* C25: the cancelled request has answered, no request is left, the filters
\* are not ready, and insightsLoading is still true
C25_LoadingStuck ==
  /\ event = "insights" /\ insReqs = <<>>
  /\ ~requiredReady(filters) /\ insightsLoading /\ insights = {}

\* C26: the response of a ww_insights request that a later run of the effect
\* cancelled leaves insights as it is; and while the filters satisfy the
\* precondition, the price-point response after which no price-point request
\* is in flight is the response of the request issued for the current filters.
C26_NoStaleResponse ==
  /\ [][event' = "insights" =>
          \E i \in 1..Len(insReqs) :
            /\ insReqs' = RemoveAt(insReqs, i)
            /\ insReqs[i].cancelled => insights' = insights]_vars
  /\ [][(event' = "points" /\ ptReqs' = <<>> /\ requiredReady(filters)) =>
          ptReqs[1].q = PointsQuery(filters, opts, wovrVariantsMap)]_vars

\* C26: the price-point request for the current filters has answered with a
\* point while the request issued for earlier filters is still in flight
C26_StaleRequestOutstanding ==
  /\ event = "points" /\ requiredReady(filters) /\ pricePoints # <<>>
  /\ Len(ptReqs) = 1
  /\ ptReqs[1].q # PointsQuery(filters, opts, wovrVariantsMap)

\* C11: when an update has made the filters satisfy the insights
\* precondition, the price-point query and the ww_insights call it starts
\* carry the predicates of the main query for these filters, with the same
\* exchanged bounds and the same start-of-day and end-of-day dates.
C11_SamePredicates ==
  (event = "update" /\ requiredReady(filters) /\ ptReqs # <<>> /\ insReqs # <<>>)
    => LET main == Preds(BuildQuery(filters, sort, page, pageSize, opts,
                                    wovrVariantsMap))
       IN /\ Preds(ptReqs[Len(ptReqs)].q) = main
          /\ InsightsPreds(insReqs[Len(insReqs)].args)
               = [k \in PredKeys \ {"incident_type_in"} |-> main[k]]

\* C11: the price-point query just started for years 2018 to 2016 asks for
\* year >= 2018 and year <= 2016, the bounds not exchanged
C11_PointsUnswapped ==
  /\ event = "update"
  /\ filters.yearFrom = "2018" /\ filters.yearTo = "2016"
  /\ requiredReady(filters)
  /\ ptReqs # <<>>
  /\ ptReqs[Len(ptReqs)].q.year_gte = {2018}
  /\ ptReqs[Len(ptReqs)].q.year_lte = {2016}

\* C10: while make, model, yearFrom or yearTo is empty, insights is null and
\* there are no price points
C10_ClearedWhileNotReady ==
  ~requiredReady(filters) => insights = {} /\ pricePoints = <<>>

\* C10: a price-point response has just arrived while a required filter is
\* empty, and its points are on display
C10_StalePointsShown ==
  /\ event = "points"
  /\ ~requiredReady(filters)
  /\ pricePoints # <<>>

----------------------------------------------------------------------------
(* The query fetchData builds, over filters entered beforehand: the page   *)
(* starts with ranges typed in, the debounce settled, the options loaded   *)
(* and the first answer (no rows) on display                               *)

YearInputs == {"", "2018", "2020"}
PriceInputs == {"", "9", "10"}
DateInputs == {"", "2024-01-05", "2024-02-01"}

RangeFilters ==
  {[INITIAL_FILTERS EXCEPT !.id = 1,
      !.yearFrom = yf, !.yearTo = yt, !.priceMin = pf, !.priceMax = pt,
      !.dateFrom = df, !.dateTo = dt] :
     yf \in YearInputs, yt \in YearInputs, pf \in PriceInputs, pt \in PriceInputs,
     df \in DateInputs, dt \in DateInputs}

InitQuery ==
  /\ filters \in RangeFilters
  /\ debounced = filters
  /\ timer = -1
  /\ quiet = DEBOUNCE_MS
  /\ sort = InitialSort
  /\ page = 1
  /\ pageSize = InitialPageSize
  /\ history = <<>>
  /\ rows = <<>>
  /\ total = 0
  /\ loading = FALSE
  /\ error = ""
  /\ vinCounts = EmptyMap
  /\ inflight = <<>>
  /\ rowsOf = {BuildQuery(filters, InitialSort, 1, InitialPageSize,
                          LoadedOpts, LoadedWovrMap)}
  /\ started = 0
  /\ event = "fetchSuccess"
  /\ opts = LoadedOpts
  /\ optsLoading = FALSE
  /\ wovrVariantsMap = LoadedWovrMap
  /\ optReqs = 0
  /\ modelReqs = <<>>
  /\ insights = {}
  /\ insightsLoading = FALSE
  /\ pricePoints = <<>>
  /\ insReqs = <<>>
  /\ ptReqs = <<>>

NextQuery ==
  \/ SearchClick /\ Within(MaxSequential)'
  \/ \E i \in 1..Len(inflight) : FetchSuccess(i, <<>>, 0)
  \/ \E i \in 1..Len(inflight) : FetchFail(i, "")

SpecQuery == InitQuery /\ [][NextQuery]_vars

\* C4: in every query in flight, a range of the debounced filters with both
\* bounds given and reversed is sent with the bounds exchanged (the smaller
\* as gte, the larger as lte); an ordered range or a single bound is sent
\* as it is.
C4_RangesOrdered ==
  \A i \in 1..Len(inflight) :
    LET q == inflight[i].q
        d == debounced
        Both(lo, hi) == lo # "" /\ hi # ""
    IN /\ IF Both(d.yearFrom, d.yearTo) /\ Number(d.yearFrom) > Number(d.yearTo)
          THEN /\ q.year_gte = {Number(d.yearTo)}
               /\ q.year_lte = {Number(d.yearFrom)}
          ELSE /\ q.year_gte = Opt(d.yearFrom # "", Number(d.yearFrom))
               /\ q.year_lte = Opt(d.yearTo # "", Number(d.yearTo))
       /\ IF Both(d.priceMin, d.priceMax) /\ Number(d.priceMin) > Number(d.priceMax)
          THEN /\ q.sold_price_gte = {Number(d.priceMax)}
               /\ q.sold_price_lte = {Number(d.priceMin)}
          ELSE /\ q.sold_price_gte = Opt(d.priceMin # "", Number(d.priceMin))
               /\ q.sold_price_lte = Opt(d.priceMax # "", Number(d.priceMax))
       /\ IF Both(d.dateFrom, d.dateTo) /\ StrGT(d.dateFrom, d.dateTo)
          THEN /\ q.sold_date_gte = {toStartOfDayISO(d.dateTo)}
               /\ q.sold_date_lte = {toEndOfDayISO(d.dateFrom)}
          ELSE /\ q.sold_date_gte = Opt(d.dateFrom # "", toStartOfDayISO(d.dateFrom))
               /\ q.sold_date_lte = Opt(d.dateTo # "", toEndOfDayISO(d.dateTo))
       /\ \A a \in q.year_gte, b \in q.year_lte : a <= b
       /\ \A a \in q.sold_price_gte, b \in q.sold_price_lte : a <= b
       /\ \A a \in q.sold_date_gte, b \in q.sold_date_lte : ~StrGT(a.date, b.date)

\* C4: a query is in flight for filters whose price range is reversed as
\* numbers though not as text ("10" to "9"), beside a reversed date range
C4_ReversedInFlight ==
  /\ inflight # <<>>
  /\ debounced.priceMin = "10" /\ debounced.priceMax = "9"
  /\ debounced.dateFrom = "2024-02-01" /\ debounced.dateTo = "2024-01-05"
  /\ debounced.yearFrom = "2020" /\ debounced.yearTo = ""

\* C20: an invocation starts with loading true, error empty and its query,
\* built from normalised ranges, sent and nothing committed; the step that
\* answers its query with rows commits rows and total and ends it with
\* loading false only when there is no VIN to count, and otherwise leaves
\* loading as it is until the step in which its VIN counts arrive; the step
\* that answers its query with an error commits the error and ends it with
\* loading false; and loading goes from true to false only in a step that
\* ends an invocation in one of these ways.
C20_StepOrder ==
  [][/\ started' > 0 =>
          /\ loading' /\ error' = ""
          /\ \A j \in (Len(inflight') - started' + 1)..Len(inflight') :
               /\ inflight'[j].phase = "query" /\ inflight'[j].data = <<>>
               /\ \A lo \in inflight'[j].q.year_gte, hi \in inflight'[j].q.year_lte : lo <= hi
               /\ \A lo \in inflight'[j].q.sold_price_gte,
                     hi \in inflight'[j].q.sold_price_lte : lo <= hi
     /\ event' = "fetchSuccess" =>
          \E i \in 1..Len(inflight) :
            /\ inflight[i].phase = "query"
            /\ rowsOf' = {inflight[i].q}
            /\ IF \E j \in 1..Len(rows') : rows'[j].vin # ""
               THEN /\ Len(inflight') = Len(inflight)
                    /\ inflight'[i].phase = "vins"
                    /\ inflight'[i].data = rows'
                    /\ loading' = loading
               ELSE /\ inflight' = RemoveAt(inflight, i)
                    /\ ~loading'
     /\ event' = "vinCounts" =>
          \E i \in 1..Len(inflight) :
            /\ inflight[i].phase = "vins"
            /\ inflight' = RemoveAt(inflight, i)
            /\ DOMAIN vinCounts' = inflight[i].vins
            /\ rows' = rows /\ total' = total
            /\ ~loading'
     /\ event' = "fetchFail" =>
          \E i \in 1..Len(inflight) :
            /\ inflight[i].phase = "query"
            /\ inflight' = RemoveAt(inflight, i)
            /\ error' # "" /\ rows' = <<>> /\ total' = 0
            /\ ~loading'
     /\ (loading /\ ~loading') =>
          /\ event' \in {"fetchSuccess", "vinCounts", "fetchFail"}
          /\ Len(inflight') = Len(inflight) - 1]_vars

\* C20: the VIN counts of the only invocation have just arrived, its 57 rows
\* are on display and loading is false
C20_CountsThenLoadingFalse ==
  /\ event = "vinCounts" /\ inflight = <<>> /\ ~loading
  /\ rows # <<>> /\ total = 57 /\ DOMAIN vinCounts = {"VIN1"}

\* C23: every query a step starts asks for the exact count and for the rows
\* from (p - 1) * ps to (p - 1) * ps + ps - 1, where p and ps are the page
\* and page size of the render that built it: those the step ends with for a
\* query of the fetch effect, and those the step began with for the query
\* the Search button sends itself.
C23_RowRange ==
  [][started' > 0 =>
       \A j \in (Len(inflight') - started' + 1)..Len(inflight') :
         LET q == inflight'[j].q
             direct == event' = "search" /\ j = Len(inflight') - started' + 1
             p == IF direct THEN page ELSE page'
             ps == IF direct THEN pageSize ELSE pageSize'
         IN /\ q.count = "exact"
            /\ q.from = (p - 1) * ps
            /\ q.to = (p - 1) * ps + ps - 1
            /\ q.to - q.from + 1 = ps]_vars

\* C23: Next has just led to page 3 with 25 rows per page, and the query it
\* started asks for rows 50 to 74
C23_ThirdPage ==
  /\ event = "next" /\ started = 1 /\ page = 3 /\ pageSize = 25
  /\ inflight[Len(inflight)].q.from = 50 /\ inflight[Len(inflight)].q.to = 74

\* C24: loading is true exactly in the states in which a fetchData
\* invocation has started and not finished.
C24_LoadingIffInFlight == loading <=> inflight # <<>>

\* C24: one of two overlapping invocations has just finished and loading is
\* false while the other still waits for its response
C24_IdleWhilePending ==
  /\ event \in {"fetchSuccess", "fetchFail", "vinCounts"}
  /\ ~loading /\ Len(inflight) = 1 /\ inflight[1].phase = "query"

\* C27: when an invocation has just ended with success and none is in
\* flight, the keys of vinCounts are the distinct non-empty VINs of the rows
\* on display.
C27_CountsOfDisplayedRows ==
  (inflight = <<>> /\ event \in {"fetchSuccess", "vinCounts"})
    => DOMAIN vinCounts = {rows[j].vin : j \in 1..Len(rows)} \ {""}

\* C27: the VIN counts of an overtaken invocation have just arrived: nothing
\* is in flight, no row is on display, and the map holds a count for VIN1
C27_CountsOfReplacedRows ==
  /\ event = "vinCounts" /\ inflight = <<>> /\ error = ""
  /\ rows = <<>> /\ DOMAIN vinCounts = {"VIN1"}

\* C16: in every state totalPages is 1 for no rows and otherwise the number
\* of pages of pageSize rows that hold total rows; the Next handler asks for
\* page + 1 below the last page, for the same page on the last page (and for
\* the last page beyond it), the Prev handler for page - 1 above page 1 and
\* for page 1 on page 1; and the steps Next and Prev take set page so.
C16_NextPrevClamped ==
  /\ [](LET last == IF total = 0 THEN 1 ELSE (total + pageSize - 1) \div pageSize IN
        /\ totalPages = last
        /\ page < last => nextPage.page = page + 1
        /\ page = last => nextPage.page = page
        /\ page > last => nextPage.page = last
        /\ page > 1 => prevPage.page = page - 1
        /\ page = 1 => prevPage.page = 1)
  /\ [][event' = "next" =>
          page' = IF page + 1 <= totalPages THEN page + 1 ELSE totalPages]_vars
  /\ [][event' = "prev" => page' = IF page - 1 >= 1 THEN page - 1 ELSE 1]_vars

\* C16: Next has led to page 3 of 57 rows by 25, the last page, from which
\* the Next handler asks for page 3 again
C16_NextOnLastPage ==
  /\ event = "next" /\ page = 3 /\ total = 57 /\ pageSize = 25
  /\ totalPages = 3 /\ nextPage.page = 3

\* Header cells: the active column, another sortable one, the UI-only one
SortColumns == {"sold_date", "make", "link"}

\* Sorting: header clicks on a result of three pages, with paging between
NextSort ==
  \/ \E c \in SortColumns : HeaderClick(c) /\ Within(MaxInFlight)'
  \/ NextClick /\ Within(MaxInFlight)'
  \/ \E i \in 1..Len(inflight) : FetchSuccess(i, <<R1>>, 57)
  \/ \E i \in 1..Len(inflight) :
       \E counts \in [inflight[i].vins -> {2}] : VinCountsDone(i, counts)

SpecSort == Init /\ [][NextSort]_vars

\* C12: in every state, toggleSort(col) asks for the same sort object when
\* col is not sortable, for the active column with the direction flipped
\* when col is the active column, and for (col, asc) when col is another
\* sortable column, and for the same page, page size and filters; and the
\* step a header click takes changes the sort in one of these three ways and
\* leaves page, page size and filters as they were.
C12_ToggleSort ==
  /\ [](\A col \in DISPLAY \cup {"id"} :
          LET n == toggleSort(col) IN
          /\ n.page = page /\ n.pageSize = pageSize /\ n.filters = filters
          /\ col \notin SORTABLE => n.sort = sort
          /\ (col \in SORTABLE /\ col = sort.column)
               => /\ n.sort.column = col
                  /\ sort.direction = "asc" => n.sort.direction = "desc"
                  /\ sort.direction = "desc" => n.sort.direction = "asc"
          /\ (col \in SORTABLE /\ col # sort.column)
               => n.sort.column = col /\ n.sort.direction = "asc")
  /\ [][event' = "toggleSort" =>
          /\ page' = page /\ pageSize' = pageSize /\ filters' = filters
          /\ \/ sort' = sort
             \/ /\ sort'.column = sort.column
                /\ sort'.direction # sort.direction
             \/ /\ sort'.column # sort.column
                /\ sort'.column \in SORTABLE
                /\ sort'.direction = "asc"]_vars

\* C12: a second click on the header of make has just flipped make to desc
C12_FlippedToDesc ==
  event = "toggleSort" /\ sort.column = "make" /\ sort.direction = "desc"

\* C13: for every sort column and direction, the query fetchData builds is
\* ordered by 'id' when the column is not in SORTABLE and by the column when
\* it is, ascending exactly when the direction is asc; and the query a header
\* click has just started is ordered by the sort it set.
C13_OrderClause ==
  /\ \A col \in DISPLAY \cup {"id", "url"}, dir \in {"asc", "desc"} :
       LET q == BuildQuery(debounced, [column |-> col, direction |-> dir, id |-> 0],
                           page, pageSize, opts, wovrVariantsMap)
       IN /\ col \notin SORTABLE => q.order = "id"
          /\ col \in SORTABLE => q.order = col
          /\ q.ascending = (dir = "asc")
  /\ (event = "toggleSort" /\ started = 1)
       => /\ inflight[Len(inflight)].q.order = sort.column
          /\ inflight[Len(inflight)].q.ascending = (sort.direction = "asc")

\* C13: the query a header click has just started is ordered by make ascending
C13_OrderedByMake ==
  /\ event = "toggleSort" /\ started = 1
  /\ sort.column = "make"
  /\ inflight[Len(inflight)].q.order = "make"
  /\ inflight[Len(inflight)].q.ascending

----------------------------------------------------------------------------
(* The damage multi-select *)

\* incident_type values of the table: one tag, two tags, two tags without a
\* blank and in another case, a value that holds a tag as a substring only
DamageRaws == {"Hail", "Hail, Flood", "Flood,hail", "Hailstorm", "Fire"}

\* The selections of the multi-select: up to two of its options
DamageSelections ==
  LET o == DamageOptions(DamageRaws)
  IN {<<>>} \cup {<<x>> : x \in o} \cup {p \in {<<x, y>> : x \in o, y \in o} : p[1] # p[2]}

DamageFilters ==
  {[INITIAL_FILTERS EXCEPT !.id = 1, !.incident_types = sel] : sel \in DamageSelections}

InitDamage ==
  /\ filters \in DamageFilters
  /\ debounced = filters
  /\ timer = -1
  /\ quiet = DEBOUNCE_MS
  /\ sort = InitialSort
  /\ page = 1
  /\ pageSize = InitialPageSize
  /\ history = <<>>
  /\ rows = <<>>
  /\ total = 0
  /\ loading = FALSE
  /\ error = ""
  /\ vinCounts = EmptyMap
  /\ opts = [LoadedOpts EXCEPT !.incident_type = DamageOptions(DamageRaws)]
  /\ inflight = <<>>
  /\ rowsOf = {BuildQuery(filters, InitialSort, 1, InitialPageSize, opts, LoadedWovrMap)}
  /\ started = 0
  /\ event = "fetchSuccess"
  /\ optsLoading = FALSE
  /\ wovrVariantsMap = LoadedWovrMap
  /\ optReqs = 0
  /\ modelReqs = <<>>
  /\ insights = {}
  /\ insightsLoading = FALSE
  /\ pricePoints = <<>>
  /\ insReqs = <<>>
  /\ ptReqs = <<>>

NextDamage ==
  \/ SearchClick /\ Within(MaxSequential)'
  \/ \E i \in 1..Len(inflight) : FetchSuccess(i, <<>>, 0)
  \/ \E i \in 1..Len(inflight) : FetchFail(i, "")

SpecDamage == InitDamage /\ [][NextDamage]_vars

\* The tags of each value of DamageRaws, split at commas, trimmed and in
\* lower case, written out by hand
TokensOf ==
  [o \in DamageRaws |->
     CASE o = "Hail" -> {"hail"}
       [] o = "Hail, Flood" -> {"hail", "flood"}
       [] o = "Flood,hail" -> {"flood", "hail"}
       [] o = "Hailstorm" -> {"hailstorm"}
       [] o = "Fire" -> {"fire"}]

\* The tag each quick pick stands for, in lower case, written out by hand
TagOf ==
  [x \in {"(ALL) Hail", "(ALL) hail", "(ALL) Flood", "(ALL) Hailstorm", "(ALL) Fire"} |->
     CASE x = "(ALL) Hail" -> "hail"
       [] x = "(ALL) hail" -> "hail"
       [] x = "(ALL) Flood" -> "flood"
       [] x = "(ALL) Hailstorm" -> "hailstorm"
       [] x = "(ALL) Fire" -> "fire"]

\* C17: the options of the damage multi-select are the quick picks of the
\* tags and the raw values; every query in flight carries no incident_type
\* predicate when nothing is selected, and otherwise the set that holds a
\* raw value exactly when it is selected itself or one of its tags is the
\* tag of a selected quick pick.
C17_DamageExpansion ==
  /\ opts.incident_type = DOMAIN TagOf \cup DamageRaws
  /\ \A i \in 1..Len(inflight) :
       LET sel == SeqRange(debounced.incident_types)
           sent == inflight[i].q.incident_type_in
       IN /\ sel = {} => sent = {}
          /\ sel # {} =>
               sent = {{o \in DamageRaws :
                          \/ o \in sel
                          \/ \E x \in sel \cap DOMAIN TagOf : TagOf[x] \in TokensOf[o]}}

\* C17: the query sent for the quick pick of Hail together with the raw value
\* Fire asks for the three values tagged hail in any case, and Fire, and not
\* for Hailstorm
C17_AllHailAndFire ==
  /\ event = "search" /\ inflight # <<>>
  /\ debounced.incident_types = <<"(ALL) Hail", "Fire">>
  /\ inflight[1].q.incident_type_in = {{"Hail", "Hail, Flood", "Flood,hail", "Fire"}}

----------------------------------------------------------------------------
(* The link cell *)

\* Days from 1970-01-01 to the day d of month m of year y (Gregorian)
DaysFromCivil(y, m, d) ==
  LET yy == IF m <= 2 THEN y - 1 ELSE y
      era == yy \div 400
      yoe == yy - era * 400
      mp == (m + 9) % 12
      doy == (153 * mp + 2) \div 5 + d - 1
      doe == yoe * 365 + yoe \div 4 - yoe \div 100 + doy
  IN era * 146097 + doe - 719468

\* Times are counted in milliseconds from 2024-01-11T00:00:00Z
EpochDay == DaysFromCivil(2024, 1, 11)
DayMs == 24 * 60 * 60 * 1000

\* Date.parse for the values the rows hold: a date 'YYYY-MM-DD' is midnight
\* UTC of that day, anything else is NaN, here the empty set
DateParse(s) ==
  IF /\ Len(s) = 10
     /\ \A i \in {1, 2, 3, 4, 6, 7, 9, 10} : Char(s, i) \in Digits
     /\ Char(s, 5) = "-" /\ Char(s, 8) = "-"
     /\ Number(SubSeq(s, 6, 7)) \in 1..12
     /\ Number(SubSeq(s, 9, 10)) \in 1..31
  THEN {(DaysFromCivil(Number(SubSeq(s, 1, 4)), Number(SubSeq(s, 6, 7)),
                       Number(SubSeq(s, 9, 10))) - EpochDay) * DayMs}
  ELSE {}

\* The two things the link cell shows: the dash and the anchor
Placeholder == "-"
ActiveLink == "Link"

\* renderLinkCell with the reference date taken from sold_date first
renderLinkCellSoldFirst(r, now) ==
  LET href == r.url
      auctionTs == IF r.auction_date # "" THEN DateParse(r.auction_date) ELSE {}
      soldTs == IF r.sold_date # "" THEN DateParse(r.sold_date) ELSE {}
  IN IF href = "" THEN Placeholder
     ELSE IF auctionTs = {} /\ soldTs = {} THEN Placeholder
     ELSE LET refTs == IF soldTs # {} THEN CHOOSE t \in soldTs : TRUE
                       ELSE CHOOSE t \in auctionTs : TRUE
              cutoff == refTs + 7 * 24 * 60 * 60 * 1000
          IN IF now > cutoff THEN Placeholder ELSE ActiveLink

\* renderLinkCell(r) evaluated when Date.now() is now; a url that is not a
\* string is the empty string
renderLinkCell(r, now) ==
  LET href == r.url
      auctionTs == IF r.auction_date # "" THEN DateParse(r.auction_date) ELSE {}
      soldTs == IF r.sold_date # "" THEN DateParse(r.sold_date) ELSE {}
  IN IF href = "" THEN Placeholder
     ELSE IF auctionTs = {} /\ soldTs = {} THEN Placeholder
     ELSE LET refTs == IF auctionTs # {} THEN CHOOSE t \in auctionTs : TRUE
                       ELSE CHOOSE t \in soldTs : TRUE
              cutoff == refTs + 7 * 24 * 60 * 60 * 1000
          IN IF now > cutoff THEN Placeholder ELSE ActiveLink

\* Dates of a row: none, not a date, and 10, 7 and 3 days before and 10 days
\* after 2024-01-11
LinkDates == {"", "n/a", "2024-01-01", "2024-01-04", "2024-01-08", "2024-01-21"}

LinkRows ==
  {[id |-> 1, vin |-> "VIN1", url |-> u, auction_date |-> a, sold_date |-> sd] :
     u \in {"", "https://example.com/lot/1"}, a \in LinkDates, sd \in LinkDates}

\* The times at which the table is rendered: midnight UTC of 2024-01-11 and
\* one millisecond later
RenderTimes == {0, 1}

NextLink ==
  \/ SearchClick /\ Within(MaxSequential)'
  \/ \E i \in 1..Len(inflight), r \in LinkRows : FetchSuccess(i, <<r>>, 1)
  \/ \E i \in 1..Len(inflight) :
       \E counts \in [inflight[i].vins -> {2}] : VinCountsDone(i, counts)

SpecLink == Init /\ [][NextLink]_vars

\* The day of each date of LinkDates counted from 2024-01-11, written out by hand
DayOf ==
  [d \in LinkDates \ {"", "n/a"} |->
     CASE d = "2024-01-01" -> -10 [] d = "2024-01-04" -> -7
       [] d = "2024-01-08" -> -3 [] d = "2024-01-21" -> 10]

HasDate(r) == r.auction_date \in DOMAIN DayOf \/ r.sold_date \in DOMAIN DayOf

\* The reference date of a row that has a date, in milliseconds
RefMs(r) ==
  (IF r.auction_date \in DOMAIN DayOf THEN DayOf[r.auction_date] ELSE DayOf[r.sold_date])
    * 86400000

\* C18 as stated: a row on display shows the link only if it has a parseable
\* date and the time of rendering is not before the reference date and not
\* more than 7 days after it; a row with auction_date 10 days in the past and
\* no sold_date shows the placeholder, and a row with auction_date 3 days in
\* the past shows the link.
C18_LinkWithinWindowAfter ==
  \A i \in 1..Len(rows), now \in RenderTimes :
    LET r == rows[i] IN
    /\ renderLinkCell(r, now) = ActiveLink
         => /\ HasDate(r)
            /\ RefMs(r) <= now /\ now <= RefMs(r) + 7 * 86400000
    /\ (r.auction_date = "2024-01-01" /\ r.sold_date = "")
         => renderLinkCell(r, now) = Placeholder
    /\ (r.auction_date = "2024-01-08" /\ now = 0)
         => renderLinkCell(r, now) = ActiveLink

\* C18 (amended): a row on display shows the link exactly when its url is a
\* non-empty string, it has a parseable date, and the time of rendering is
\* not more than 7 days after the reference date (which includes every time
\* before the reference date); otherwise it shows the placeholder. The
\* reference date is the auction date when parseable, else the sold date.
C18_LinkRule ==
  \A i \in 1..Len(rows), now \in RenderTimes :
    LET r == rows[i]
        shown == r.url # "" /\ HasDate(r) /\ now <= RefMs(r) + 7 * 86400000
    IN /\ shown => renderLinkCell(r, now) = ActiveLink
       /\ ~shown => renderLinkCell(r, now) = Placeholder

\* C18: a row whose auction is 10 days ahead is on display with its link
C18_UpcomingAuctionLinked ==
  /\ event = "fetchSuccess" /\ rows # <<>>
  /\ rows[1].url # "" /\ rows[1].auction_date = "2024-01-21"
  /\ \A now \in RenderTimes : renderLinkCell(rows[1], now) = ActiveLink

----------------------------------------------------------------------------
(* The earlier version of the page that looks the buyer number up in a table
   of its own (src/unnamed/part_004) *)

\* <value in buyer table> joins to <column in vehicles>, tried in this order
BUYER_LINKS ==
  <<[from |-> "vin", to |-> "vin"],
    [from |-> "vehicle_id", to |-> "id"],
    [from |-> "auction_number", to |-> "auction_number"],
    [from |-> "stock_no", to |-> "stock_no"]>>

\* COLUMNS of this version, which are also its SORTABLE
BuyerColumns ==
  {"id", "title", "make", "model", "sub_model", "year", "vin", "odometer",
   "wovr_status", "sale_status", "sold_price", "sold_date",
   "auction_house", "stock_no", "auction_number", "state", "color"}

\* The query on vehicles this version builds; target is {} without a buyer
\* number and else the singleton of what findBuyerTargets returned
BuyerQuery(d, s, p, ps, target) ==
  LET yr == NormNum(d.yearFrom, d.yearTo)
      pr == NormNum(d.priceMin, d.priceMax)
      from == (p - 1) * ps
  IN [table |-> "vehicles", count |-> "exact",
      vin |-> Opt(Trim(d.vin) # "", Trim(d.vin)),
      target_in |-> target,
      make |-> Opt(d.make # "", d.make),
      model |-> Opt(d.model # "", d.model),
      year_gte |-> Opt(yr[1] # "", Number(yr[1])),
      year_lte |-> Opt(yr[2] # "", Number(yr[2])),
      wovr_status |-> Opt(d.wovr_status # "", d.wovr_status),
      sale_status |-> Opt(d.sale_status # "", d.sale_status),
      sold_price_gte |-> Opt(pr[1] # "", Number(pr[1])),
      sold_price_lte |-> Opt(pr[2] # "", Number(pr[2])),
      auction_house |-> Opt(d.auction_house # "", d.auction_house),
      state |-> Opt(d.state # "", d.state),
      order |-> IF s.column \in BuyerColumns THEN s.column ELSE "id",
      ascending |-> (s.direction = "asc"),
      from |-> from, to |-> from + ps - 1]

\* A fetchData invocation of this version just after its first statements:
\* with a buyer number it awaits the first lookup of findBuyerTargets and has
\* sent no query on vehicles (q is empty), without one it has sent its query
BuyerFetch(d, s, p, ps) ==
  IF Trim(d.buyer_no) # ""
  THEN [phase |-> "lookup", map |-> 1, d |-> d, sort |-> s, page |-> p,
        pageSize |-> ps, q |-> {}]
  ELSE [phase |-> "query", map |-> 0, d |-> d, sort |-> s, page |-> p,
        pageSize |-> ps, q |-> {BuyerQuery(d, s, p, ps, {})}]

\* The queries on vehicles that have been sent and not answered
VehicleQueries == UNION {inflight[i].q : i \in 1..Len(inflight)}

\* The timeout of useDebounce, and the fetch effect when the debounced
\* filters change with it: setLoading(true); setError('')
BuyerDebounceFire ==
  /\ timer = 0
  /\ timer' = -1
  /\ debounced' = filters
  /\ IF filters.id # debounced.id
     THEN /\ inflight' = Append(inflight, BuyerFetch(filters, sort, page, pageSize))
          /\ loading' = TRUE
          /\ error' = ""
          /\ started' = 1
     ELSE /\ UNCHANGED <<inflight, loading, error>>
          /\ started' = 0
  /\ event' = "debounce"
  /\ UNCHANGED <<filters, quiet, sort, page, pageSize, history>>
  /\ UNCHANGED <<resultVars, optVars, insightVars>>

\* A lookup of findBuyerTargets returned values: the query on vehicles is sent
BuyerLookupFound(i, values) ==
  /\ i \in 1..Len(inflight)
  /\ inflight[i].phase = "lookup"
  /\ values # {}
  /\ LET e == inflight[i]
         target == [col |-> BUYER_LINKS[e.map].to, values |-> values]
     IN inflight' = [inflight EXCEPT ![i] =
          [e EXCEPT !.phase = "query",
                    !.q = {BuyerQuery(e.d, e.sort, e.page, e.pageSize, {target})}]]
  /\ started' = 0 /\ event' = "buyerFound"
  /\ UNCHANGED <<nonUi, loading, error, resultVars, optVars, insightVars>>

\* A lookup of findBuyerTargets failed or returned no value: the next mapping
\* is tried, and after the last one findBuyerTargets returns null and
\* fetchData returns: setRows([]); setTotal(0); setLoading(false)
BuyerLookupEmpty(i) ==
  /\ i \in 1..Len(inflight)
  /\ inflight[i].phase = "lookup"
  /\ IF inflight[i].map < Len(BUYER_LINKS)
     THEN /\ inflight' = [inflight EXCEPT ![i].map = @ + 1]
          /\ event' = "buyerNext"
          /\ UNCHANGED <<rows, total, rowsOf, loading>>
     ELSE /\ inflight' = RemoveAt(inflight, i)
          /\ event' = "noBuyerTarget"
          /\ rows' = <<>>
          /\ total' = 0
          /\ rowsOf' = {}
          /\ loading' = FALSE
  /\ started' = 0
  /\ UNCHANGED <<nonUi, error, vinCounts, optVars, insightVars>>

\* The query on vehicles answered with data and count
BuyerQuerySuccess(i, data, count) ==
  /\ i \in 1..Len(inflight)
  /\ inflight[i].phase = "query"
  /\ rows' = data
  /\ total' = count
  /\ rowsOf' = inflight[i].q
  /\ loading' = FALSE
  /\ inflight' = RemoveAt(inflight, i)
  /\ started' = 0 /\ event' = "fetchSuccess"
  /\ UNCHANGED <<nonUi, error, vinCounts, optVars, insightVars>>

\* The query on vehicles answered with an error: this version sets the error
\* and keeps rows and total
BuyerQueryFail(i, msg) ==
  /\ i \in 1..Len(inflight)
  /\ inflight[i].phase = "query"
  /\ error' = IF msg = "" THEN "Failed to fetch" ELSE msg
  /\ loading' = FALSE
  /\ inflight' = RemoveAt(inflight, i)
  /\ started' = 0 /\ event' = "fetchFail"
  /\ UNCHANGED <<nonUi, resultVars, optVars, insightVars>>

InitBuyer ==
  /\ filters = INITIAL_FILTERS
  /\ debounced = INITIAL_FILTERS
  /\ timer = DEBOUNCE_MS
  /\ quiet = 0
  /\ sort = InitialSort
  /\ page = 1
  /\ pageSize = InitialPageSize
  /\ history = <<>>
  /\ rows = <<>>
  /\ total = 0
  /\ loading = TRUE
  /\ error = ""
  /\ vinCounts = EmptyMap
  /\ inflight = <<BuyerFetch(INITIAL_FILTERS, InitialSort, 1, InitialPageSize)>>
  /\ rowsOf = {}
  /\ started = 1
  /\ event = "mount"
  /\ opts = LoadedOpts
  /\ optsLoading = FALSE
  /\ wovrVariantsMap = EmptyMap
  /\ optReqs = 0
  /\ modelReqs = <<>>
  /\ insights = {}
  /\ insightsLoading = FALSE
  /\ pricePoints = <<>>
  /\ insReqs = <<>>
  /\ ptReqs = <<>>

BuyerInputs == {<<"buyer_no", "B1">>, <<"buyer_no", "">>}

NextBuyer ==
  \/ \E kv \in BuyerInputs : InputChange(kv[1], kv[2])
  \/ Tick
  \/ BuyerDebounceFire /\ Within(MaxInFlight)'
  \/ \E i \in 1..Len(inflight) : BuyerLookupFound(i, {"VIN1"})
  \/ \E i \in 1..Len(inflight) : BuyerLookupEmpty(i)
  \/ \E i \in 1..Len(inflight) : BuyerQuerySuccess(i, <<R1>>, 1)
  \/ \E i \in 1..Len(inflight), msg \in ErrorMessages : BuyerQueryFail(i, msg)

SpecBuyer == InitBuyer /\ [][NextBuyer]_vars

\* C19: the step in which the last lookup of findBuyerTargets finds nothing
\* ends with rows empty, total 0, error empty and loading false, and with no
\* query on vehicles sent by it.
C19_NoTargetEndsEmpty ==
  [][event' = "noBuyerTarget" =>
       /\ rows' = <<>> /\ total' = 0 /\ error' = "" /\ loading' = FALSE
       /\ VehicleQueries' \subseteq VehicleQueries]_vars

\* C19: the lookup has just found nothing and the empty result stands beside
\* the error message of an earlier invocation
C19_ErrorBesideEmptyResult ==
  event = "noBuyerTarget" /\ rows = <<>> /\ total = 0 /\ error # "" /\ ~loading

----------------------------------------------------------------------------
(* The VIN counts of a page *)

\* A page with a VIN on two rows, another VIN, and a row without VIN
VinPage ==
  <<R1, [id |-> 2, vin |-> "VIN1"], [id |-> 3, vin |-> "VIN2"], [id |-> 4, vin |-> ""]>>

\* The count a call returns, 0 standing for a failed call
VinCountAnswers == {0, 1, 2}

NextVin ==
  \/ SearchClick /\ Within(MaxInFlight)'
  \/ \E i \in 1..Len(inflight), d \in {<<>>, VinPage} : FetchSuccess(i, d, Len(d))
  \/ \E i \in 1..Len(inflight), v \in {"VIN1", "VIN2"}, c \in VinCountAnswers :
       VinCountAnswered(i, v, c)
  \/ \E i \in 1..Len(inflight) : VinCountsDone(i, inflight[i].counts)

SpecVin == Init /\ [][NextVin]_vars

\* C21: the step that commits the rows of VinPage starts the count calls for
\* VIN1 and VIN2, one each, and leaves the map as it is, and the step that
\* commits no rows empties the map; a count call that answers is kept with
\* its invocation and the map is not touched; the map is set in the step in
\* which the last call has answered, to the answers, whose keys are VIN1 and
\* VIN2 for VinPage; and a row shows the badge exactly when the map holds a
\* count above 1 for its VIN.
C21_VinCounts ==
  /\ [][event' = "fetchSuccess" =>
          \E i \in 1..Len(inflight) :
            /\ inflight[i].phase = "query"
            /\ rows' = VinPage =>
                 /\ inflight'[i].vins = {"VIN1", "VIN2"}
                 /\ inflight'[i].counts = EmptyMap
                 /\ vinCounts' = vinCounts
            /\ rows' = <<>> => vinCounts' = EmptyMap]_vars
  /\ [][event' = "vinCount" =>
          /\ vinCounts' = vinCounts
          /\ \E i \in 1..Len(inflight) :
               /\ Cardinality(DOMAIN inflight'[i].counts)
                    = Cardinality(DOMAIN inflight[i].counts) + 1
               /\ DOMAIN inflight'[i].counts \subseteq inflight[i].vins]_vars
  /\ [][event' = "vinCounts" =>
          \E i \in 1..Len(inflight) :
            /\ inflight[i].phase = "vins"
            /\ inflight' = RemoveAt(inflight, i)
            /\ vinCounts' = inflight[i].counts
            /\ inflight[i].data = VinPage => DOMAIN vinCounts' = {"VIN1", "VIN2"}]_vars
  /\ [](\A j \in 1..Len(rows) :
          vinBadge(rows[j])
            <=> \E v \in DOMAIN vinCounts : v = rows[j].vin /\ vinCounts[v] \in {2})

\* C21: the counts of VinPage have just been stored, 2 for VIN1 and 0 for the
\* failed call of VIN2: the two rows of VIN1 show the badge, the others none
C21_BadgeOnDuplicates ==
  /\ event = "vinCounts" /\ rows = VinPage
  /\ vinCounts = ("VIN1" :> 2 @@ "VIN2" :> 0)
  /\ vinBadge(rows[1]) /\ vinBadge(rows[2]) /\ ~vinBadge(rows[3]) /\ ~vinBadge(rows[4])

----------------------------------------------------------------------------
(* The WOVR labels *)

\* The page with options o and variants map wmap loaded, filters f entered
\* and their result on display
InitLoaded(f, o, wmap) ==
  /\ filters = f
  /\ debounced = f
  /\ timer = -1
  /\ quiet = DEBOUNCE_MS
  /\ sort = InitialSort
  /\ page = 1
  /\ pageSize = InitialPageSize
  /\ history = <<>>
  /\ rows = <<>>
  /\ total = 0
  /\ loading = FALSE
  /\ error = ""
  /\ vinCounts = EmptyMap
  /\ inflight = <<>>
  /\ rowsOf = {BuildQuery(f, InitialSort, 1, InitialPageSize, o, wmap)}
  /\ started = 0
  /\ event = "fetchSuccess"
  /\ opts = o
  /\ optsLoading = FALSE
  /\ wovrVariantsMap = wmap
  /\ optReqs = 0
  /\ modelReqs = <<>>
  /\ insights = {}
  /\ insightsLoading = FALSE
  /\ pricePoints = <<>>
  /\ insReqs = <<>>
  /\ ptReqs = <<>>

\* wovr_status values of the table: a known status in two spellings, an
\* unknown one in two casings, and two more known ones
WovrRaws ==
  {"Statutory Write-off", "STATUTORY WRITE OFF", "Hail Damage", "hail damage",
   "WOVR N/A", "Inspection Passed Repairable Writeoff"}

\* The filters entered: no WOVR label, each label of the dropdown, or a label
\* the variants map does not hold, with or without a sale status and a state
WovrFilters ==
  {[INITIAL_FILTERS EXCEPT !.id = 1, !.wovr_status = w, !.sale_status = ss, !.state = st] :
     w \in {""} \cup DOMAIN WovrReverse(WovrRaws) \cup {"Unlisted"},
     ss \in {"", "SOLD"}, st \in {"", "NSW"}}

InitWovr ==
  \E f \in WovrFilters :
    InitLoaded(f, [LoadedOpts EXCEPT !.wovr_status = DOMAIN WovrReverse(WovrRaws)],
               WovrReverse(WovrRaws))

NextWovr ==
  \/ SearchClick /\ Within(MaxSequential)'
  \/ \E i \in 1..Len(inflight) : FetchSuccess(i, <<>>, 0)
  \/ \E i \in 1..Len(inflight) : FetchFail(i, "")

SpecWovr == InitWovr /\ [][NextWovr]_vars

\* The normalised form of each value of WovrRaws, written out by hand
WovrNormalForm ==
  [r \in WovrRaws |->
     CASE r = "Statutory Write-off" -> "statutory write off"
       [] r = "STATUTORY WRITE OFF" -> "statutory write off"
       [] r = "Hail Damage" -> "hail damage"
       [] r = "hail damage" -> "hail damage"
       [] r = "WOVR N/A" -> "wovr n a"
       [] r = "Inspection Passed Repairable Writeoff"
            -> "inspection passed repairable writeoff"]

\* C22: every raw value is among the variants of the label canonicalizeWovr
\* gives it, and that label is an option of the dropdown; raw values with the
\* same normalised form have the same label; and every query in flight
\* carries no wovr_status predicate for an empty selection, the variants of
\* the selected label when the map holds it, and the label alone otherwise.
C22_WovrLabels ==
  /\ \A r \in WovrRaws :
       /\ canonicalizeWovr(r) \in opts.wovr_status
       /\ r \in wovrVariantsMap[canonicalizeWovr(r)]
  /\ \A r1 \in WovrRaws, r2 \in WovrRaws :
       WovrNormalForm[r1] = WovrNormalForm[r2]
         => canonicalizeWovr(r1) = canonicalizeWovr(r2)
  /\ \A i \in 1..Len(inflight) :
       LET w == debounced.wovr_status
           sent == inflight[i].q.wovr_status_in
       IN /\ w = "" => sent = {}
          /\ w \in DOMAIN wovrVariantsMap
               => sent = {wovrVariantsMap[w]}
                  /\ \A r \in WovrRaws : canonicalizeWovr(r) = w => r \in wovrVariantsMap[w]
          /\ (w # "" /\ w \notin DOMAIN wovrVariantsMap) => sent = {{w}}

\* C22: the dropdown offers Hail Damage and hail damage as two labels, and
\* the query sent for the first asks for that spelling only
C22_TwoLabelsOneForm ==
  /\ {"Hail Damage", "hail damage"} \subseteq opts.wovr_status
  /\ event = "search" /\ inflight # <<>>
  /\ debounced.wovr_status = "Hail Damage"
  /\ inflight[1].q.wovr_status_in = {{"Hail Damage"}}

----------------------------------------------------------------------------
(* The page and the debounced filters across drill-down, Back and typing *)

NextRestore ==
  \/ Tick
  \/ DebounceFire /\ Within(MaxSequential)'
  \/ InputChange("vin", "VIN2") /\ Within(MaxSequential)'
  \/ BackClick /\ Within(MaxSequential)'
  \/ \E i \in 1..Len(rows) :
       VinBadgeClick(i) /\ Within(MaxSequential)' /\ Len(history') <= MaxHistory
  \/ NextClick /\ Within(MaxSequential)'
  \/ \E i \in 1..Len(inflight) : FetchSuccess(i, <<R1>>, 57)
  \/ \E i \in 1..Len(inflight) :
       \E counts \in [inflight[i].vins -> {2}] : VinCountsDone(i, counts)

SpecRestore == Init /\ [][NextRestore]_vars

\* C30: the step in which goBack restores a view on a page p > 1 whose
\* filters differ from the debounced ones starts no query built from page p
\* and the debounced filters of before the restore; and the step in which
\* update is called on a page > 1 starts no query.
C30_PageWithItsFilters ==
  /\ [][(event' = "goBack" /\ page' > 1 /\ Val(debounced) # Val(filters')) =>
          \A j \in (Len(inflight') - started' + 1)..Len(inflight') :
            inflight'[j].q # BuildQuery(debounced, sort', page', pageSize',
                                        opts', wovrVariantsMap')]_vars
  /\ [][(event' = "update" /\ page > 1) => started' = 0]_vars

\* C30: Back has just restored a view on a later page while the debounced
\* filters still hold the VIN alone, and the query in flight asks for that
\* page of the VIN's rows
C30_RestoredPageOfVinRows ==
  /\ event = "goBack" /\ page > 1
  /\ filters.vin = "" /\ debounced.vin # ""
  /\ Len(inflight) = 1
  /\ inflight[1].q = CurrentQuery

====
